---------------------------- MODULE Spec2Model ----------------------------
(***************************************************************************)
(* Share-group orchestration of manila: manila/share_group/api.py (class   *)
(* API) together with the admin actions of the two REST controllers.       *)
(* The record store holds groups, group snapshots, snapshot members and    *)
(* shares; every API call is one action, and `last` records what the call  *)
(* did (its result and the ordered trace of store and dispatcher calls).   *)
(***************************************************************************)
EXTENDS Integers, Sequences, FiniteSets, TLC

\* ------------------------------------------------------------- bounds
MaxGroups == 2
MaxSnaps == 1
MaxShares == 4
MaxGroupShares == 3
MaxUserShareGroups == 1
MaxTypeList == 3
MaxListRecords == 2
MaxRequests == 2
MaxRaceShares == 1
MaxTypes == 2
MaxTypeGroups == 1

\* ---------------------------------------------------------- constants
STATUS_CREATING == "creating"
STATUS_AVAILABLE == "available"
STATUS_ERROR == "error"
STATUS_DELETING == "deleting"
Statuses == {STATUS_CREATING, STATUS_AVAILABLE, STATUS_ERROR, STATUS_DELETING}

None == "None"
NoId == 0

GroupIds == 1..MaxGroups
SnapIds == 1..MaxSnaps
ShareIds == 1..MaxShares
Hosts == {"hostA"}

DRIVER_HANDLES_SHARE_SERVERS == "driver_handles_share_servers"

\* The share types the store knows, each with its extra_specs map.
ShareTypeDB ==
  [st \in {"stT", "stF", "stE"} |->
     CASE st = "stT" -> [k \in {DRIVER_HANDLES_SHARE_SERVERS} |-> "True"]
       [] st = "stF" -> [k \in {DRIVER_HANDLES_SHARE_SERVERS} |-> "False"]
       [] OTHER      -> [k \in {} |-> ""]]
\* Share type ids a caller may pass ("stX" is unknown to the store).
ShareTypeIds == {"stT", "stF", "stE", "stX"}
ShareTypeOrder == <<"stE", "stF", "stT", "stX">>

\* The group types the store knows, each with the share types it permits.
GroupTypeDB ==
  [gt \in {"gtAll", "gtT", "gtNone"} |->
     CASE gt = "gtAll" -> {"stT", "stF", "stE"}
       [] gt = "gtT"   -> {"stT"}
       [] OTHER        -> {}]
GroupTypeIds == {"gtAll", "gtT", "gtNone", "gtX"}

\* Share networks: "net1" exists, "netX" does not, None is "not supplied".
ShareNetworkDB == {"net1"}
ShareNetworkIds == {None, "net1", "netX"}

VARIABLES groups, snaps, members, shares, nextGroup, nextSnap, nextShare, last
\* The tenants' view used by the listing operations, and the last listing.
VARIABLES catalog, listed
\* The requests in flight when API calls interleave at store-call granularity.
VARIABLES pc
\* The group type registry and the last call made on it.
VARIABLES group_types, nextType, typeLast

orchVars == <<groups, snaps, members, shares, nextGroup, nextSnap, nextShare, last>>
listVars == <<catalog, listed>>
raceVars == <<pc>>
typeVars == <<group_types, nextType, typeLast>>
auxVars == <<listVars, raceVars, typeVars>>
vars == <<orchVars, auxVars>>

\* ------------------------------------------------------------ helpers
Ev(e, i, s) == [ev |-> e, id |-> i, s |-> s]

\* A message handed to a dispatcher; a dispatcher call that raises sends
\* nothing.
Cast(e, i, s, fails) == IF fails THEN Ev("raise", i, e) ELSE Ev(e, i, s)

Idle == [op |-> "none", res |-> "none", why |-> "", trace |-> <<>>,
         id |-> NoId, args |-> <<>>, pre |-> <<>>]

Call(op, res, why, trace, id, args, pre) ==
  [op |-> op, res |-> res, why |-> why, trace |-> trace, id |-> id,
   args |-> args, pre |-> pre]

Remove(f, x) == [y \in DOMAIN f \ {x} |-> f[y]]

RECURSIVE SeqOfSet(_)
SeqOfSet(S) ==
  IF S = {} THEN <<>>
  ELSE LET m == CHOOSE x \in S : \A y \in S : x <= y
       IN <<m>> \o SeqOfSet(S \ {m})

TypeSeq(S) == SelectSeq(ShareTypeOrder, LAMBDA t : t \in S)
Range(s) == {s[i] : i \in DOMAIN s}

HasEvent(trace, e) == \E i \in DOMAIN trace : trace[i].ev = e
CountEvent(trace, e) == Cardinality({i \in DOMAIN trace : trace[i].ev = e})
FirstIndex(trace, e) ==
  IF HasEvent(trace, e)
    THEN CHOOSE i \in DOMAIN trace :
           /\ trace[i].ev = e
           /\ \A j \in DOMAIN trace : trace[j].ev = e => i <= j
    ELSE 0

\* ------------------------------------------------------- store reads
count_group_snapshots_in_share_group(g) ==
  Cardinality({s \in DOMAIN snaps : snaps[s].share_group_id = g})
count_shares_in_share_group(g) ==
  Cardinality({s \in DOMAIN shares : shares[s].share_group_id = g})
share_get_all_by_share_group_id(g) ==
  SeqOfSet({s \in DOMAIN shares : shares[s].share_group_id = g})
group_snapshot_members_get_all(sn) ==
  SeqOfSet({m.share_id : m \in {x \in members : x.group_snapshot_id = sn}})
MemberOf(sn, sid) ==
  CHOOSE m \in members : m.group_snapshot_id = sn /\ m.share_id = sid

\* The store after installation: no group, snapshot, member or share.
StoreEmpty ==
  /\ groups = <<>>
  /\ snaps = <<>>
  /\ members = {}
  /\ shares = <<>>
  /\ nextGroup = 1
  /\ nextSnap = 1
  /\ nextShare = 1
  /\ last = Idle

ListIdle == catalog = {} /\ listed = Idle
RaceIdle == pc = <<>>
TypesIdle == group_types = <<>> /\ nextType = 1 /\ typeLast = Idle

Init == StoreEmpty /\ ListIdle /\ RaceIdle /\ TypesIdle


\* ------------------------------------------------------------ records
GroupRec(status, host, gt, src, net, srv, types) ==
  [status |-> status, host |-> host, share_group_type_id |-> gt,
   source_group_snapshot_id |-> src, share_network_id |-> net,
   share_server_id |-> srv, share_types |-> types]

SnapRec(status, g) == [status |-> status, share_group_id |-> g]

MemberRecAvailable(sn, sid, sh) ==
  [group_snapshot_id |-> sn, status |-> STATUS_AVAILABLE, size |-> sh.size,
   share_proto |-> sh.share_proto, share_id |-> sid,
   share_instance_id |-> sh.instance_id]
MemberRec(sn, sid, sh) ==
  [group_snapshot_id |-> sn, status |-> STATUS_CREATING, size |-> sh.size,
   share_proto |-> sh.share_proto, share_id |-> sid,
   share_instance_id |-> sh.instance_id]

ShareRec(status, g, st, size, proto, inst, net) ==
  [status |-> status, share_group_id |-> g, share_type_id |-> st,
   size |-> size, share_proto |-> proto, instance_id |-> inst,
   share_network_id |-> net]

\* db.group_snapshot_destroy: "This will delete the snapshot and all of
\* it's members".
group_snapshot_destroy(sn) ==
  /\ snaps' = Remove(snaps, sn)
  /\ members' = {m \in members : m.group_snapshot_id # sn}

\* --------------------------------------------------------- API.delete
\* if not group['host']: destroy and return
HostAssignedOrError(group) == group.host # None \/ group.status = STATUS_ERROR
HostAssigned(group) == group.host # None

\* statuses = (constants.STATUS_AVAILABLE, constants.STATUS_ERROR)
DeleteStatusesWithCreating == {STATUS_AVAILABLE, STATUS_ERROR, STATUS_CREATING}
DeleteStatuses == {STATUS_AVAILABLE, STATUS_ERROR}

HasGroupSnapshots(g) == count_group_snapshots_in_share_group(g) # 0
HasSharesUnchecked(g) == FALSE
HasShares(g) == count_shares_in_share_group(g) # 0

\* group = self.db.share_group_update(..., {'status': STATUS_DELETING})
MarkDeletingDestroys(gs, g) == Remove(gs, g)
MarkDeleting(gs, g) == [gs EXCEPT ![g].status = STATUS_DELETING]

\* What the store held for a group when a call began (kept in last.pre).
GroupPre(g) ==
  [status |-> groups[g].status, host |-> groups[g].host,
   nsnaps |-> Cardinality({s \in DOMAIN snaps : snaps[s].share_group_id = g}),
   nshares |-> Cardinality({s \in DOMAIN shares : shares[s].share_group_id = g})]

\* GroupController.delete reads the group and hands it to API.delete.
delete(g, castFails) ==
  LET group == groups[g]
      pre == GroupPre(g)
      Raise(exc, why, trace) ==
        /\ last' = Call("delete", exc, why, trace, g, <<>>, pre)
        /\ UNCHANGED groups
  IN
  /\ g \in DOMAIN groups
  /\ IF ~HostAssigned(group)
       THEN /\ groups' = Remove(groups, g)
            /\ last' = Call("delete", "ok", "", <<Ev("share_group_destroy", g, "")>>,
                            g, <<>>, pre)
       ELSE IF group.status \notin DeleteStatuses
         THEN Raise("InvalidShareGroup", "status", <<>>)
       ELSE IF HasGroupSnapshots(g)
         THEN Raise("InvalidShareGroup", "group_snapshots",
                    <<Ev("count_group_snapshots_in_share_group", g, "")>>)
       ELSE IF HasShares(g)
         THEN Raise("InvalidShareGroup", "shares",
                    <<Ev("count_group_snapshots_in_share_group", g, ""),
                      Ev("count_shares_in_share_group", g, "")>>)
       ELSE /\ groups' = MarkDeleting(groups, g)
            /\ last' = Call("delete", IF castFails THEN "DispatchError" ELSE "ok", "",
                            <<Ev("count_group_snapshots_in_share_group", g, ""),
                              Ev("count_shares_in_share_group", g, ""),
                              Ev("share_group_update", g, STATUS_DELETING),
                              Cast("share_rpcapi.delete_share_group", g, group.host,
                                   castFails)>>,
                            g, <<>>, pre)
  /\ UNCHANGED <<snaps, members, shares, nextGroup, nextSnap, nextShare, auxVars>>

\* ------------------------------------------ API.delete_group_snapshot
\* statuses = (constants.STATUS_AVAILABLE, constants.STATUS_ERROR)
SnapshotDeleteStatusesWithCreating ==
  {STATUS_AVAILABLE, STATUS_ERROR, STATUS_CREATING}
SnapshotDeleteStatuses == {STATUS_AVAILABLE, STATUS_ERROR}

\* GroupSnapshotController.delete reads the snapshot and hands it over.
delete_group_snapshot(sn, castFails) ==
  LET snap == snaps[sn]
      pre == [status |-> snaps[sn].status,
              parent_exists |-> snaps[sn].share_group_id \in DOMAIN groups,
              parent_host |-> IF snaps[sn].share_group_id \in DOMAIN groups
                                THEN groups[snaps[sn].share_group_id].host
                                ELSE None]
      get == <<Ev("share_group_get", snap.share_group_id, "")>>
  IN
  /\ sn \in DOMAIN snaps
  /\ IF snap.share_group_id \notin DOMAIN groups
       THEN /\ last' = Call("delete_group_snapshot", "ShareGroupNotFound", "",
                            get, sn, <<>>, pre)
            /\ UNCHANGED snaps
       ELSE IF snap.status \notin SnapshotDeleteStatuses
         THEN /\ last' = Call("delete_group_snapshot", "InvalidGroupSnapshot",
                              "status", get, sn, <<>>, pre)
              /\ UNCHANGED snaps
       ELSE /\ snaps' = [snaps EXCEPT ![sn].status = STATUS_DELETING]
            /\ last' = Call("delete_group_snapshot",
                            IF castFails THEN "DispatchError" ELSE "ok", "",
                            get \o <<Ev("group_snapshot_update", sn, STATUS_DELETING),
                                     Cast("share_rpcapi.delete_group_snapshot", sn,
                                          groups[snap.share_group_id].host, castFails)>>,
                            sn, <<>>, pre)
  /\ UNCHANGED <<groups, members, shares, nextGroup, nextSnap, nextShare, auxVars>>


\* --------------------------------------------------------- API.create
extra_specs_get(specs, k) == IF k \in DOMAIN specs THEN specs[k] ELSE None

Lower(s) == CASE s = "True" -> "true" [] s = "False" -> "false" [] OTHER -> s

\* strutils.bool_from_string, non-strict: anything not truthy is False.
bool_from_string(s) == Lower(s) \in {"1", "t", "true", "on", "y", "yes"}

BoolStr(b) == IF b THEN "True" ELSE "False"

V(err, why, trace, stids, net, srv, orig, dhss) ==
  [err |-> err, why |-> why, trace |-> trace, stids |-> stids, net |-> net,
   srv |-> srv, orig |-> orig, dhss |-> dhss]

\* if source_group_snapshot_id: load the snapshot, check its status, load
\* the parent group and take share types, network and server from it.
SnapshotStatusOkOrError(snap) == snap.status \in {STATUS_AVAILABLE, STATUS_ERROR}
SnapshotStatusUnchecked(snap) == TRUE
SnapshotStatusOk(snap) == snap.status = STATUS_AVAILABLE

FromSnapshot(stids, snapId, net) ==
  IF snapId = NoId
    THEN V("ok", "", <<>>, stids, net, None, NoId, None)
  ELSE LET t1 == <<Ev("group_snapshot_get", snapId, "")>> IN
    IF snapId \notin DOMAIN snaps
      THEN V("GroupSnapshotNotFound", "", t1, stids, net, None, NoId, None)
    ELSE IF ~SnapshotStatusOk(snaps[snapId])
      THEN V("InvalidGroupSnapshot", "snapshot_status", t1, stids, net, None,
             NoId, None)
    ELSE LET p == snaps[snapId].share_group_id
             t2 == Append(t1, Ev("share_group_get", p, ""))
         IN IF p \notin DOMAIN groups
              THEN V("ShareGroupNotFound", "", t2, stids, net, None, NoId, None)
              ELSE V("ok", "", t2, TypeSeq(groups[p].share_types),
                     groups[p].share_network_id, groups[p].share_server_id,
                     p, None)

\* elif not driver_handles_share_servers == share_type_handle_ss:
DhssConflictTrueFirst(dhss, handle_ss) == dhss = "True" /\ handle_ss = "False"
DhssConflict(dhss, handle_ss) == dhss # None /\ dhss # handle_ss

\* if (driver_handles_share_servers and
\*         not (source_group_snapshot_id or share_network_id)):
NetworkRequiredNever(dhss, snapId, net) == FALSE
NetworkRequired(dhss, snapId, net) ==
  dhss = "True" /\ ~(snapId # NoId \/ net # None)

\* for share_type_id in (share_type_ids or []): ...
RECURSIVE TypeLoop(_, _, _, _, _)
TypeLoop(stids, i, dhss, net, trace) ==
  IF i > Len(stids)
    THEN [err |-> "ok", why |-> "", dhss |-> dhss, trace |-> trace]
  ELSE LET st == stids[i]
           t1 == Append(trace, Ev("get_share_type", NoId, st))
       IN
    IF st \notin DOMAIN ShareTypeDB
      THEN [err |-> "InvalidInput", why |-> "share_type_not_found",
            dhss |-> dhss, trace |-> t1]
    ELSE LET extra_specs == ShareTypeDB[st] IN
      IF DOMAIN extra_specs = {}
        THEN TypeLoop(stids, i + 1, dhss, net, t1)
      ELSE LET share_type_handle_ss ==
                 BoolStr(bool_from_string(
                   extra_specs_get(extra_specs, DRIVER_HANDLES_SHARE_SERVERS)))
               dhss1 == IF dhss = None THEN share_type_handle_ss ELSE dhss
           IN
        IF DhssConflict(dhss, share_type_handle_ss)
          THEN [err |-> "InvalidInput", why |-> "dhss_conflict",
                dhss |-> dhss, trace |-> t1]
        ELSE IF share_type_handle_ss = "False" /\ net # None
          THEN [err |-> "InvalidInput", why |-> "network_with_dhss_false",
                dhss |-> dhss1, trace |-> t1]
        ELSE TypeLoop(stids, i + 1, dhss1, net, t1)

\* The validation pipeline of API.create, up to the subset check.
Validate(stids0, snapId, net0, gtId) ==
  LET a == FromSnapshot(stids0, snapId, net0) IN
  IF a.err # "ok" THEN a
  ELSE LET l == TypeLoop(a.stids, 1, None, a.net, a.trace)
           Fail(why, trace) ==
             V("InvalidInput", why, trace, a.stids, a.net, a.srv, a.orig, l.dhss)
       IN
    IF l.err # "ok" THEN Fail(l.why, l.trace)
    ELSE LET t3 == IF a.net # None
                     THEN Append(l.trace, Ev("share_network_get", NoId, a.net))
                     ELSE l.trace
             t4 == Append(t3, Ev("group_type_get", NoId, gtId))
         IN
      IF a.net # None /\ a.net \notin ShareNetworkDB
        THEN Fail("share_network_not_found", t3)
      ELSE IF NetworkRequired(l.dhss, snapId, a.net)
        THEN Fail("network_required", t3)
      ELSE IF gtId \notin DOMAIN GroupTypeDB
        THEN Fail("group_type_not_found", t4)
      ELSE IF ~(Range(a.stids) \subseteq GroupTypeDB[gtId])
        THEN Fail("not_subset", t4)
      ELSE V("ok", "", t4, a.stids, a.net, a.srv, a.orig, l.dhss)

InstanceIdOf(s) == 10 + s

\* share_api.create for the members 1..k of the source snapshot: one new
\* share per member, linked to the new group.
ClonedShares(snapId, mem, k, gid, net) ==
  [s \in nextShare .. (nextShare + k - 1) |->
     LET m == MemberOf(snapId, mem[s - nextShare + 1])
     IN ShareRec(STATUS_CREATING, gid, shares[m.share_id].share_type_id,
                 m.size, m.share_proto, InstanceIdOf(s), net)]

CloneTrace(mem, k) ==
  [i \in 1..k |-> Ev("share_api.create", nextShare + i - 1, "")]

\* except Exception: with excutils.save_and_reraise_exception():
\*     self.db.share_group_destroy(context.elevated(), group['id'])
CompensateCreateMissing(gs, gid) == gs
CompensateCreate(gs, gid) == Remove(gs, gid)
Reraise(exc) == exc

\* share_type_objects: what get_share_type returned for each id of the list.
share_type_objects(stids) ==
  [i \in DOMAIN stids |-> [id |-> stids[i], extra_specs |-> ShareTypeDB[stids[i]]]]

\* request_spec = {'share_group_id': group['id']}; request_spec.update(options)
\* request_spec['share_types'] = share_type_objects
\* request_spec['resource_type'] = group_type
request_spec(gid, group, stids, gtId) ==
  [share_group_id |-> gid,
   share_group_type_id |-> group.share_group_type_id,
   source_group_snapshot_id |-> group.source_group_snapshot_id,
   share_network_id |-> group.share_network_id,
   share_server_id |-> group.share_server_id,
   status |-> group.status,
   share_types |-> share_type_objects(stids),
   resource_type |-> [id |-> gtId, share_types |-> GroupTypeDB[gtId]]]

\* if group_snapshot and original_group:
IsCloneNever(snapId, orig) == FALSE
IsClone(snapId, orig) == snapId # NoId /\ orig # NoId

\* if group_snapshot and original_group: cast to the source group's host,
\* else: cast to the scheduler with the request spec.
CreateDispatch(snapId, orig, gid, host, castFails, spec) ==
  IF IsClone(snapId, orig)
    THEN Cast("share_rpcapi.create_share_group", gid, host, castFails)
    ELSE IF castFails
      THEN Cast("scheduler_rpcapi.create_share_group", gid, "", TRUE)
      ELSE Ev("scheduler_rpcapi.create_share_group", gid, "") @@ [spec |-> spec]

\* What the store held for the source snapshot when a call began.
SnapshotPre(snapId) ==
  IF snapId \in DOMAIN snaps
    THEN [snap_status |-> snaps[snapId].status,
          parent_status |-> IF snaps[snapId].share_group_id \in DOMAIN groups
                              THEN groups[snaps[snapId].share_group_id].status
                              ELSE None,
          members |-> SeqOfSet({m.share_id : m \in
                         {x \in members : x.group_snapshot_id = snapId}}),
          parent |-> IF snaps[snapId].share_group_id \in DOMAIN groups
                       THEN groups[snaps[snapId].share_group_id]
                       ELSE None]
    ELSE [snap_status |-> None, parent_status |-> None, members |-> <<>>,
          parent |-> None]

create(stids0, snapId, net0, gtId, failAt, castFails) ==
  LET v == Validate(stids0, snapId, net0, gtId)
      pre == SnapshotPre(snapId)
      args == [stids |-> stids0, snap |-> snapId, net |-> net0, gt |-> gtId,
               failAt |-> failAt, castFails |-> castFails]
  IN
  IF v.err # "ok"
    THEN /\ failAt = 0 /\ ~castFails
         /\ last' = Call("create", v.err, v.why, v.trace, NoId, args, pre)
         /\ UNCHANGED <<groups, snaps, members, shares, nextGroup, nextSnap,
                        nextShare, auxVars>>
  ELSE
    LET gid == nextGroup
        types == IF Len(v.stids) > 0 THEN Range(v.stids) ELSE GroupTypeDB[gtId]
        host == IF v.orig # NoId THEN groups[v.orig].host ELSE None
        group == GroupRec(STATUS_CREATING, host, gtId, snapId, v.net, v.srv, types)
        mem == IF snapId # NoId THEN group_snapshot_members_get_all(snapId)
                                ELSE <<>>
        failed == failAt # 0
        k == IF failed THEN failAt - 1 ELSE Len(mem)
        t1 == Append(v.trace, Ev("share_group_create", gid, STATUS_CREATING))
        t2 == IF snapId # NoId
                THEN Append(t1, Ev("group_snapshot_members_get_all", snapId, ""))
                     \o CloneTrace(mem, k)
                ELSE t1
    IN
    /\ nextGroup <= MaxGroups
    /\ failAt <= Len(mem)
    /\ nextShare + k - 1 <= MaxShares
    /\ nextGroup' = nextGroup + 1
    /\ nextShare' = nextShare + k
    /\ shares' = shares @@ ClonedShares(snapId, mem, k, gid, v.net)
    /\ IF failed
         THEN /\ ~castFails
              /\ groups' = CompensateCreate(groups @@ (gid :> group), gid)
              /\ last' = Call("create", Reraise("ShareCreateError"), "",
                              t2 \o <<Ev("raise", mem[failAt], "share_api.create"),
                                      Ev("share_group_destroy", gid, "")>>,
                              gid, args, pre)
         ELSE /\ groups' = groups @@ (gid :> group)
              /\ last' = Call("create",
                              IF castFails THEN "DispatchError" ELSE "ok", "",
                              Append(t2, CreateDispatch(snapId, v.orig, gid, host,
                                       castFails,
                                       request_spec(gid, group, v.stids, gtId))),
                              gid, args, pre)
    /\ UNCHANGED <<snaps, members, nextSnap, auxVars>>


\* ------------------------------------------ API.create_group_snapshot
GroupStatusOk(group) == group.status = STATUS_AVAILABLE
ShareStatusOkOrError(share) == share.status \in {STATUS_AVAILABLE, STATUS_ERROR}
ShareStatusOk(share) == share.status = STATUS_AVAILABLE

\* members persisted for the first k shares of the list
NewMembers(sn, shs, k) == {MemberRec(sn, shs[i], shares[shs[i]]) : i \in 1..k}

MemberTrace(shs, k) ==
  [i \in 1..k |-> Ev("group_snapshot_member_create", shs[i], "")]

\* except Exception: with excutils.save_and_reraise_exception():
\*     self.db.group_snapshot_destroy(context, snap['id'])
CompensateSnapshotNoCascade(sn, ss, ms) ==
  [snaps |-> Remove(ss, sn), members |-> ms]
CompensateSnapshot(sn, ss, ms) ==
  [snaps |-> Remove(ss, sn),
   members |-> {m \in ms : m.group_snapshot_id # sn}]

create_group_snapshot(g, failAt, castFails) ==
  LET args == [group |-> g, failAt |-> failAt, castFails |-> castFails]
      t0 == <<Ev("share_group_get", g, "")>>
      Raise(exc, why, trace, pre) ==
        /\ failAt = 0 /\ ~castFails
        /\ last' = Call("create_group_snapshot", exc, why, trace, NoId, args, pre)
        /\ UNCHANGED <<snaps, members, nextSnap>>
  IN
  /\ IF g \notin DOMAIN groups
       THEN Raise("ShareGroupNotFound", "", t0, <<>>)
     ELSE
       LET group == groups[g]
           shs == share_get_all_by_share_group_id(g)
           t1 == Append(t0, Ev("share_get_all_by_share_group_id", g, ""))
           pre == [status |-> groups[g].status, host |-> groups[g].host,
                   shares |-> shs,
                   share_status |-> [i \in DOMAIN shs |-> shares[shs[i]].status]]
       IN
       IF ~GroupStatusOk(group)
         THEN Raise("InvalidShareGroup", "group_status", t0, pre)
       ELSE IF \E i \in DOMAIN shs : ~ShareStatusOk(shares[shs[i]])
         THEN Raise("InvalidShareGroup", "share_status", t1, pre)
       ELSE
         LET sn == nextSnap
             failed == failAt # 0
             k == IF failed THEN failAt - 1 ELSE Len(shs)
             raised == failed \/ castFails
             t2 == Append(t1, Ev("group_snapshot_create", sn, STATUS_CREATING))
                   \o MemberTrace(shs, k)
             t3 == IF failed
                     THEN Append(t2, Ev("raise", shs[failAt],
                                        "group_snapshot_member_create"))
                     ELSE Append(t2, Cast("share_rpcapi.create_group_snapshot",
                                          sn, group.host, castFails))
             created == [snaps |-> snaps @@ (sn :> SnapRec(STATUS_CREATING, g)),
                         members |-> members \cup NewMembers(sn, shs, k)]
             after == IF raised
                        THEN CompensateSnapshot(sn, created.snaps, created.members)
                        ELSE created
         IN
         /\ nextSnap <= MaxSnaps
         /\ failAt <= Len(shs)
         /\ failed => ~castFails
         /\ nextSnap' = nextSnap + 1
         /\ snaps' = after.snaps
         /\ members' = after.members
         /\ last' = Call("create_group_snapshot",
                         IF failed THEN Reraise("MemberCreateError")
                         ELSE IF castFails THEN Reraise("DispatchError")
                         ELSE "ok",
                         "",
                         IF raised
                           THEN Append(t3, Ev("group_snapshot_destroy", sn, ""))
                           ELSE t3,
                         sn, args, pre)
  /\ UNCHANGED <<groups, shares, nextGroup, nextShare, auxVars>>

\* ----------------------------------------------------- admin actions
\* AdminActionsMixin._reset_status -> GroupController._update
group_reset_status(g, status) ==
  /\ g \in DOMAIN groups
  /\ groups[g].status # status
  /\ groups' = [groups EXCEPT ![g].status = status]
  /\ last' = Idle
  /\ UNCHANGED <<snaps, members, shares, nextGroup, nextSnap, nextShare, auxVars>>

\* AdminActionsMixin._force_delete -> GroupController._delete
group_force_delete(g) ==
  /\ g \in DOMAIN groups
  /\ groups' = Remove(groups, g)
  /\ last' = Idle
  /\ UNCHANGED <<snaps, members, shares, nextGroup, nextSnap, nextShare, auxVars>>

\* AdminActionsMixin._reset_status -> GroupSnapshotController._update
group_snapshot_reset_status(sn, status) ==
  /\ sn \in DOMAIN snaps
  /\ snaps[sn].status # status
  /\ snaps' = [snaps EXCEPT ![sn].status = status]
  /\ last' = Idle
  /\ UNCHANGED <<groups, members, shares, nextGroup, nextSnap, nextShare, auxVars>>

\* AdminActionsMixin._force_delete -> GroupSnapshotController._delete
group_snapshot_force_delete(sn) ==
  /\ sn \in DOMAIN snaps
  /\ group_snapshot_destroy(sn)
  /\ last' = Idle
  /\ UNCHANGED <<groups, shares, nextGroup, nextSnap, nextShare, auxVars>>

\* ------------------------------------- the collaborators (environment)
\* The scheduler places a group that has no host yet; the share manager
\* then reports the outcome.
SchedulerPlace(g, h) ==
  /\ g \in DOMAIN groups
  /\ groups[g].status = STATUS_CREATING
  /\ groups[g].host = None
  /\ groups' = [groups EXCEPT ![g].host = h]
  /\ last' = Idle
  /\ UNCHANGED <<snaps, members, shares, nextGroup, nextSnap, nextShare, auxVars>>

\* The share provisioning service creates a share in a group for a user.
ShareServiceCreate(g, st, status) ==
  /\ g \in DOMAIN groups
  /\ groups[g].status = STATUS_AVAILABLE
  /\ st \in groups[g].share_types
  /\ nextShare <= MaxGroupShares
  /\ Cardinality({shares[s].share_group_id : s \in DOMAIN shares} \cup {g})
       <= MaxUserShareGroups
  /\ shares' = shares @@
       (nextShare :> ShareRec(status, g, st, nextShare,
                              IF nextShare % 2 = 1 THEN "NFS" ELSE "CIFS",
                              InstanceIdOf(nextShare),
                              groups[g].share_network_id))
  /\ nextShare' = nextShare + 1
  /\ last' = Idle
  /\ UNCHANGED <<groups, snaps, members, nextGroup, nextSnap, auxVars>>

\* The share manager finishes the deletion of a group or of a snapshot.
ManagerDeleteGroup(g) ==
  /\ g \in DOMAIN groups
  /\ groups[g].status = STATUS_DELETING
  /\ groups[g].host # None
  /\ groups' = Remove(groups, g)
  /\ last' = Idle
  /\ UNCHANGED <<snaps, members, shares, nextGroup, nextSnap, nextShare, auxVars>>

ManagerDeleteSnapshot(sn) ==
  /\ sn \in DOMAIN snaps
  /\ snaps[sn].status = STATUS_DELETING
  /\ group_snapshot_destroy(sn)
  /\ last' = Idle
  /\ UNCHANGED <<groups, shares, nextGroup, nextSnap, nextShare, auxVars>>

\* ------------------------------------------------- the specification
SpecTypeLists == {<<"stF">>, <<"stX">>}
SpecNetworks == {None}
SpecGroupTypes == {"gtAll"}
SpecResetStatuses == {STATUS_AVAILABLE, STATUS_ERROR}

Next ==
  \/ \E st \in SpecTypeLists, sn \in {NoId} \cup SnapIds, net \in SpecNetworks,
        gt \in SpecGroupTypes, failAt \in 0..MaxGroupShares, cf \in BOOLEAN :
       create(st, sn, net, gt, failAt, cf)
  \/ \E g \in GroupIds, cf \in BOOLEAN : delete(g, cf)
  \/ \E g \in GroupIds, failAt \in 0..MaxGroupShares, cf \in BOOLEAN :
       create_group_snapshot(g, failAt, cf)
  \/ \E sn \in SnapIds, cf \in BOOLEAN : delete_group_snapshot(sn, cf)
  \/ \E g \in GroupIds, s \in SpecResetStatuses : group_reset_status(g, s)
  \/ \E g \in GroupIds : group_force_delete(g)
  \/ \E sn \in SnapIds, s \in SpecResetStatuses : group_snapshot_reset_status(sn, s)
  \/ \E sn \in SnapIds : group_snapshot_force_delete(sn)
  \/ \E g \in GroupIds, h \in Hosts : SchedulerPlace(g, h)
  \/ \E g \in GroupIds, st \in ShareTypeIds, s \in {STATUS_AVAILABLE, STATUS_ERROR} :
       ShareServiceCreate(g, st, s)
  \/ \E g \in GroupIds : ManagerDeleteGroup(g)
  \/ \E sn \in SnapIds : ManagerDeleteSnapshot(sn)

Spec == Init /\ [][Next]_vars

\* ------------------------------ the specification of create's validation
\* API.create on the empty store with every list of share types up to
\* MaxTypeList, every share network and every group type.
RECURSIVE SeqsUpTo(_, _)
SeqsUpTo(S, n) ==
  IF n = 0 THEN {<<>>}
  ELSE LET shorter == SeqsUpTo(S, n - 1)
       IN shorter \cup {Append(s, x) : s \in {q \in shorter : Len(q) = n - 1},
                                      x \in S}

ValidateTypeLists == SeqsUpTo(ShareTypeIds, MaxTypeList)

NextValidate ==
  \E st \in ValidateTypeLists, net \in ShareNetworkIds, gt \in GroupTypeIds :
    /\ groups = <<>>
    /\ create(st, NoId, net, gt, 0, FALSE)

SpecValidate == Init /\ [][NextValidate]_vars

\* ---------------------------------- the specification of create's clones
\* API.create with and without a source snapshot, on stores that hold groups
\* created the same way and snapshots of them.
CloneTypeLists == {<<>>, <<"stT">>, <<"stF">>, <<"stT", "stF">>}
CloneNetworks == {None, "net1"}
CloneGroupTypes == {"gtAll", "gtT", "gtNone"}

NextCreate ==
  \/ \E st \in CloneTypeLists, sn \in {NoId} \cup SnapIds,
        net \in CloneNetworks, gt \in CloneGroupTypes, cf \in BOOLEAN :
       create(st, sn, net, gt, 0, cf)
  \/ \E g \in GroupIds, h \in Hosts : SchedulerPlace(g, h)
  \/ \E g \in GroupIds : group_reset_status(g, STATUS_AVAILABLE)
  \/ \E g \in GroupIds : create_group_snapshot(g, 0, FALSE)
  \/ \E sn \in SnapIds : group_snapshot_reset_status(sn, STATUS_AVAILABLE)

SpecCreate == Init /\ [][NextCreate]_vars


\* ------------------------------------------------ the listing operations
\* Records as the listings see them: each group, group snapshot and snapshot
\* member carries the project of the context that created it
\* ('project_id': context.project_id in the options of every create).
Projects == {"p1", "p2"}
ListIds == 1..MaxListRecords

ListRec(kind, id, project, sn) ==
  [kind |-> kind, id |-> id, project_id |-> project, group_snapshot_id |-> sn]

\* Group i of a project, its snapshot i and the one member of that snapshot.
CatalogOf(owner) ==
  UNION {{ListRec("share_group", i, owner[i], NoId),
          ListRec("group_snapshot", i, owner[i], NoId),
          ListRec("group_snapshot_member", i, owner[i], i)} : i \in DOMAIN owner}

Catalogs == {CatalogOf(owner) : owner \in UNION {[S -> Projects] : S \in SUBSET ListIds}}

Contexts == [project_id : Projects, is_admin : BOOLEAN]

\* search_opts.get('all_tenants'): absent, or the string of the query.
AllTenantsValues == {None, "", "0", "1"}
Truthy(v) == v \notin {None, ""}

\* The store's listings.
share_group_get_all == {r \in catalog : r.kind = "share_group"}
share_group_get_all_by_project(project) ==
  {r \in catalog : r.kind = "share_group" /\ r.project_id = project}
group_snapshot_get_all == {r \in catalog : r.kind = "group_snapshot"}
group_snapshot_get_all_by_project(project) ==
  {r \in catalog : r.kind = "group_snapshot" /\ r.project_id = project}
db_group_snapshot_members_get_all(sn) ==
  {r \in catalog : r.kind = "group_snapshot_member" /\ r.group_snapshot_id = sn}

\* if context.is_admin and search_opts.get('all_tenants'):
Unscoped(context, all_tenants) == context.is_admin /\ Truthy(all_tenants)

Listing(op, context, all_tenants, call, result) ==
  [op |-> op, context |-> context, all_tenants |-> all_tenants, call |-> call,
   result |-> result]

get_all(context, all_tenants) ==
  /\ listed' =
       IF Unscoped(context, all_tenants)
         THEN Listing("get_all", context, all_tenants, "share_group_get_all",
                      share_group_get_all)
         ELSE Listing("get_all", context, all_tenants,
                      "share_group_get_all_by_project",
                      share_group_get_all_by_project(context.project_id))
  /\ UNCHANGED <<catalog, orchVars, raceVars, typeVars>>

get_all_group_snapshots(context, all_tenants) ==
  /\ listed' =
       IF Unscoped(context, all_tenants)
         THEN Listing("get_all_group_snapshots", context, all_tenants,
                      "group_snapshot_get_all", group_snapshot_get_all)
         ELSE Listing("get_all_group_snapshots", context, all_tenants,
                      "group_snapshot_get_all_by_project",
                      group_snapshot_get_all_by_project(context.project_id))
  /\ UNCHANGED <<catalog, orchVars, raceVars, typeVars>>

get_all_group_snapshot_members(context, group_snapshot_id) ==
  /\ listed' = Listing("get_all_group_snapshot_members", context, None,
                       "group_snapshot_members_get_all",
                       db_group_snapshot_members_get_all(group_snapshot_id))
  /\ UNCHANGED <<catalog, orchVars, raceVars, typeVars>>

InitList ==
  /\ StoreEmpty /\ RaceIdle /\ TypesIdle
  /\ catalog \in Catalogs
  /\ listed = Idle

NextList ==
  \/ \E c \in Contexts, a \in AllTenantsValues : get_all(c, a)
  \/ \E c \in Contexts, a \in AllTenantsValues : get_all_group_snapshots(c, a)
  \/ \E c \in Contexts, sn \in ListIds : get_all_group_snapshot_members(c, sn)

SpecList == InitList /\ [][NextList]_vars


\* ------------------------------------- interleaved requests on one group
\* API.delete and API.create_group_snapshot take no lock: requests run
\* concurrently and each store call is one atomic step.  pc[r] holds the
\* position of request r and what it has read so far.
Requests == 1..MaxRequests

Req(op, at, g, group, shs, k, sn, res) ==
  [op |-> op, at |-> at, g |-> g, group |-> group, shs |-> shs, k |-> k,
   sn |-> sn, res |-> res]

ReqIdle == Req("none", "idle", NoId, None, <<>>, 0, NoId, "")

Done(r, res) == [pc EXCEPT ![r].at = "done", ![r].res = res]

\* GroupController.delete: group = self.group_api.get(context, id)
delete_get(r, g) ==
  /\ pc[r].at = "idle"
  /\ g \in DOMAIN groups
  /\ pc' = [pc EXCEPT ![r] = Req("delete", "check", g, groups[g], <<>>, 0,
                                 NoId, "")]
  /\ UNCHANGED <<orchVars, listVars, typeVars>>

\* API.delete up to count_group_snapshots_in_share_group: the host and the
\* status are those of the record read by the controller.
delete_check(r) ==
  LET g == pc[r].g IN
  /\ pc[r].op = "delete" /\ pc[r].at = "check"
  /\ IF ~HostAssigned(pc[r].group)
       THEN /\ groups' = Remove(groups, g)
            /\ pc' = Done(r, "ok")
       ELSE /\ UNCHANGED groups
            /\ pc' = IF pc[r].group.status \notin DeleteStatuses
                       THEN Done(r, "InvalidShareGroup")
                     ELSE IF HasGroupSnapshots(g)
                       THEN Done(r, "InvalidShareGroup")
                     ELSE [pc EXCEPT ![r].at = "count_shares"]
  /\ UNCHANGED <<snaps, members, shares, nextGroup, nextSnap, nextShare, last,
                 listVars, typeVars>>

\* if self.db.count_shares_in_share_group(context, group_id): raise
delete_count_shares(r) ==
  /\ pc[r].op = "delete" /\ pc[r].at = "count_shares"
  /\ pc' = IF HasShares(pc[r].g) THEN Done(r, "InvalidShareGroup")
                                 ELSE [pc EXCEPT ![r].at = "update"]
  /\ UNCHANGED <<orchVars, listVars, typeVars>>

\* share_group_update(context, group_id, {'status': STATUS_DELETING}): the
\* store raises ShareGroupNotFound when the record is gone.
delete_update(r) ==
  LET g == pc[r].g IN
  /\ pc[r].op = "delete" /\ pc[r].at = "update"
  /\ IF g \in DOMAIN groups
       THEN /\ groups' = MarkDeleting(groups, g)
            /\ pc' = [pc EXCEPT ![r].at = "cast"]
       ELSE /\ UNCHANGED groups
            /\ pc' = Done(r, "ShareGroupNotFound")
  /\ UNCHANGED <<snaps, members, shares, nextGroup, nextSnap, nextShare, last,
                 listVars, typeVars>>

\* self.share_rpcapi.delete_share_group(context, group)
delete_cast(r) ==
  /\ pc[r].op = "delete" /\ pc[r].at = "cast"
  /\ pc' = Done(r, "ok")
  /\ UNCHANGED <<orchVars, listVars, typeVars>>

\* group = self.db.share_group_get(...) and the check of its status
cgs_get(r, g) ==
  /\ pc[r].at = "idle"
  /\ g \in DOMAIN groups
  /\ pc' = IF ~GroupStatusOk(groups[g])
             THEN [pc EXCEPT ![r] = Req("create_group_snapshot", "done", g,
                                        groups[g], <<>>, 0, NoId,
                                        "InvalidShareGroup")]
             ELSE [pc EXCEPT ![r] = Req("create_group_snapshot", "shares", g,
                                        groups[g], <<>>, 0, NoId, "")]
  /\ UNCHANGED <<orchVars, listVars, typeVars>>

\* shares = self.db.share_get_all_by_share_group_id(...) and the check of
\* their statuses
cgs_shares(r) ==
  LET shs == share_get_all_by_share_group_id(pc[r].g) IN
  /\ pc[r].op = "create_group_snapshot" /\ pc[r].at = "shares"
  /\ pc' = IF \E i \in DOMAIN shs : ~ShareStatusOk(shares[shs[i]])
             THEN Done(r, "InvalidShareGroup")
             ELSE [pc EXCEPT ![r].at = "create", ![r].shs = shs]
  /\ UNCHANGED <<orchVars, listVars, typeVars>>

\* snap = self.db.group_snapshot_create(context, options)
cgs_create(r) ==
  /\ pc[r].op = "create_group_snapshot" /\ pc[r].at = "create"
  /\ nextSnap <= MaxSnaps
  /\ snaps' = snaps @@ (nextSnap :> SnapRec(STATUS_CREATING, pc[r].g))
  /\ nextSnap' = nextSnap + 1
  /\ pc' = [pc EXCEPT ![r].at = "members", ![r].sn = nextSnap]
  /\ UNCHANGED <<groups, members, shares, nextGroup, nextShare, last,
                 listVars, typeVars>>

\* member = self.db.group_snapshot_member_create(context, member_options)
cgs_member(r) ==
  LET k == pc[r].k + 1
      sid == pc[r].shs[k]
  IN
  /\ pc[r].op = "create_group_snapshot" /\ pc[r].at = "members"
  /\ k <= Len(pc[r].shs)
  /\ members' = members \cup {MemberRec(pc[r].sn, sid, shares[sid])}
  /\ pc' = [pc EXCEPT ![r].k = k]
  /\ UNCHANGED <<groups, snaps, shares, nextGroup, nextSnap, nextShare, last,
                 listVars, typeVars>>

\* self.share_rpcapi.create_group_snapshot(context, snap, group['host'])
cgs_cast(r) ==
  /\ pc[r].op = "create_group_snapshot" /\ pc[r].at = "members"
  /\ pc[r].k = Len(pc[r].shs)
  /\ pc' = Done(r, "ok")
  /\ UNCHANGED <<orchVars, listVars, typeVars>>

\* A hosted group that is AVAILABLE or in ERROR, with up to MaxRaceShares
\* AVAILABLE shares and no snapshot, and no request begun.
RaceGroup(status) ==
  GroupRec(status, "hostA", "gtAll", NoId, None, None, {"stF"})

RaceShares(n) ==
  [s \in 1..n |-> ShareRec(STATUS_AVAILABLE, 1, "stF", s, "NFS",
                           InstanceIdOf(s), None)]

InitRace ==
  /\ ListIdle /\ TypesIdle
  /\ \E status \in {STATUS_AVAILABLE, STATUS_ERROR} :
       groups = (1 :> RaceGroup(status))
  /\ \E n \in 0..MaxRaceShares : shares = RaceShares(n) /\ nextShare = n + 1
  /\ snaps = <<>> /\ members = {}
  /\ nextGroup = 2 /\ nextSnap = 1
  /\ last = Idle
  /\ pc = [r \in Requests |-> ReqIdle]

NextRace ==
  \/ \E r \in Requests, g \in GroupIds : delete_get(r, g)
  \/ \E r \in Requests : delete_check(r)
  \/ \E r \in Requests : delete_count_shares(r)
  \/ \E r \in Requests : delete_update(r)
  \/ \E r \in Requests : delete_cast(r)
  \/ \E r \in Requests, g \in GroupIds : cgs_get(r, g)
  \/ \E r \in Requests : cgs_shares(r)
  \/ \E r \in Requests : cgs_create(r)
  \/ \E r \in Requests : cgs_member(r)
  \/ \E r \in Requests : cgs_cast(r)

SpecRace == InitRace /\ [][NextRace]_vars


\* ------------------------------------- API.create on a store with a snapshot
\* Every combination of share type list, snapshot, network and group type,
\* requested of a store that holds one hosted group and one snapshot of it.
OrderTypeLists == SeqsUpTo({"stT", "stF", "stX"}, MaxTypeList)

OrderGroupTypes == {"gtAll", "gtT", "gtX"}

OrderParents ==
  {GroupRec(STATUS_AVAILABLE, "hostA", "gtT", NoId, "net1", None, {"stT"})}

InitOrder ==
  /\ ListIdle /\ RaceIdle /\ TypesIdle
  /\ \E parent \in OrderParents : groups = (1 :> parent)
  /\ \E status \in {STATUS_CREATING, STATUS_AVAILABLE} :
       snaps = (1 :> SnapRec(status, 1))
  /\ members = {} /\ shares = <<>>
  /\ nextGroup = 2 /\ nextSnap = 2 /\ nextShare = 1
  /\ last = Idle

NextOrder ==
  \E st \in OrderTypeLists, sn \in {NoId, 1}, net \in ShareNetworkIds,
     gt \in OrderGroupTypes :
    /\ nextGroup = 2
    /\ create(st, sn, net, gt, 0, FALSE)

SpecOrder == InitOrder /\ [][NextOrder]_vars

\* ------------------------------------------------- the group type registry
\* ShareGroupTypesController over manila/share_group/group_types.py and the
\* store's group type table.  typeLast records the last request: its
\* response and the registry calls it made, in order.
TypeIds == 1..MaxTypes
TypeNames == {"", "gold", "silver"}
TypeShareTypeLists == {<<>>, <<"stT">>}
\* 'project' of an access request: two projects and a value that is no uuid.
AccessProjects == Projects \cup {"notuuid"}
\* 'extra_specs' of a create request: absent ({}) or one pair.
TypeSpecsInputs == {<<>>, "k1" :> "a"}

\* 'groups' is the number of existing groups whose share_group_type_id is
\* this type (the store's relation, seen from the type).
GroupTypeRec(name, is_public, share_types, extra_specs, projects) ==
  [name |-> name, is_public |-> is_public, share_types |-> share_types,
   extra_specs |-> extra_specs, projects |-> projects, groups |-> 0]

TypeCall(op, res, why, trace, id, args) ==
  [op |-> op, res |-> res, why |-> why, trace |-> trace, id |-> id,
   args |-> args]

\* db.group_type_create: a second type of the same name is a uniqueness
\* violation; the projects handed over are granted access.
NameTaken(name) == \E t \in DOMAIN group_types : group_types[t].name = name

\* group_types.create(context, name, share_types, extra_specs, is_public,
\*                    projects)
registry_create(name, share_types, extra_specs, is_public, projects) ==
  IF NameTaken(name)
    THEN [err |-> "GroupTypeCreateFailed", types |-> group_types]
    ELSE [err |-> "ok",
          types |-> group_types @@
            (nextType :> GroupTypeRec(name, is_public, Range(share_types),
                                      extra_specs, projects))]

\* ShareGroupTypesController._create
\* group_types.create(context, name, share_types, specs, is_public)
CreateWithCallerAsProject(is_public) == {"p1"}
CreateProjects(is_public) == {}

type_create(name, share_types, specs, is_public) ==
  LET args == [name |-> name, share_types |-> share_types,
               extra_specs |-> specs, is_public |-> is_public]
      Reject(why) ==
        /\ typeLast' = TypeCall("_create", "HTTPBadRequest", why, <<>>, NoId, args)
        /\ UNCHANGED <<group_types, nextType>>
      made == registry_create(name, share_types, specs, is_public,
                              CreateProjects(is_public))
      t1 == <<Ev("group_types.create", nextType, name)>>
  IN
  /\ IF share_types = <<>> THEN Reject("share_types")
     ELSE IF name = "" THEN Reject("name")
     ELSE IF made.err # "ok"
       THEN /\ typeLast' = TypeCall("_create", made.err, "", t1, NoId, args)
            /\ UNCHANGED <<group_types, nextType>>
     ELSE /\ nextType <= MaxTypes
          /\ group_types' = made.types
          /\ nextType' = nextType + 1
          /\ typeLast' = TypeCall("_create", "ok", "",
                                  Append(t1, Ev("get_group_type_by_name",
                                                nextType, name)),
                                  nextType, args)
  /\ UNCHANGED <<orchVars, listVars, raceVars>>

\* _check_body: the project must be uuid-like
ProjectOk(project) == project \in Projects

\* _assert_non_public_group_type: if group_type['is_public']: raise
\* webob.exc.HTTPConflict
IsPublicNever(group_type) == FALSE
IsPublic(group_type) == group_type.is_public

AssertNonPublic(id) ==
  IF id \notin DOMAIN group_types THEN "HTTPNotFound"
  ELSE IF IsPublic(group_types[id]) THEN "HTTPConflict"
  ELSE "ok"

\* ShareGroupTypesController._add_project_access
add_project_access(id, project) ==
  LET args == [id |-> id, project |-> project]
      t1 == <<Ev("get_group_type", id, "")>>
      t2 == Append(t1, Ev("add_group_type_access", id, project))
      Answer(res, why, trace) ==
        typeLast' = TypeCall("_add_project_access", res, why, trace, id, args)
      a == AssertNonPublic(id)
  IN
  /\ IF ~ProjectOk(project)
       THEN Answer("HTTPBadRequest", "project", <<>>) /\ UNCHANGED group_types
     ELSE IF a # "ok"
       THEN Answer(a, IF a = "HTTPConflict" THEN "public" ELSE "", t1)
            /\ UNCHANGED group_types
     ELSE IF project \in group_types[id].projects
       THEN Answer("HTTPConflict", "GroupTypeAccessExists", t2)
            /\ UNCHANGED group_types
     ELSE /\ Answer("ok", "", t2)
          /\ group_types' =
               [group_types EXCEPT ![id].projects = @ \cup {project}]
  /\ UNCHANGED <<nextType, orchVars, listVars, raceVars>>

\* ShareGroupTypesController._remove_project_access
remove_project_access(id, project) ==
  LET args == [id |-> id, project |-> project]
      t1 == <<Ev("get_group_type", id, "")>>
      t2 == Append(t1, Ev("remove_group_type_access", id, project))
      Answer(res, why, trace) ==
        typeLast' = TypeCall("_remove_project_access", res, why, trace, id, args)
      a == AssertNonPublic(id)
  IN
  /\ IF ~ProjectOk(project)
       THEN Answer("HTTPBadRequest", "project", <<>>) /\ UNCHANGED group_types
     ELSE IF a # "ok"
       THEN Answer(a, IF a = "HTTPConflict" THEN "public" ELSE "", t1)
            /\ UNCHANGED group_types
     ELSE IF project \notin group_types[id].projects
       THEN Answer("HTTPNotFound", "GroupTypeAccessNotFound", t2)
            /\ UNCHANGED group_types
     ELSE /\ Answer("ok", "", t2)
          /\ group_types' =
               [group_types EXCEPT ![id].projects = @ \ {project}]
  /\ UNCHANGED <<nextType, orchVars, listVars, raceVars>>

\* ShareGroupTypesController.group_type_access
group_type_access(id) ==
  LET args == [id |-> id]
      t1 == <<Ev("get_group_type", id, "projects")>>
      Answer(res, why, projects) ==
        typeLast' = TypeCall("group_type_access", res, why, t1, id, args)
                      @@ [projects |-> projects]
  IN
  /\ IF id \notin DOMAIN group_types THEN Answer("HTTPNotFound", "", {})
     ELSE IF group_types[id].is_public THEN Answer("HTTPNotFound", "public", {})
     ELSE Answer("ok", "", group_types[id].projects)
  /\ UNCHANGED <<group_types, nextType, orchVars, listVars, raceVars>>

\* db.group_type_destroy: the store refuses while a group references the type
InUse(group_type) == group_type.groups > 0

\* _delete: except GroupTypeInUse / except NotFound
DeleteResponseInUseNotFound(err) ==
  IF err = "ok" THEN "ok" ELSE "HTTPNotFound"
DeleteResponse(err) ==
  CASE err = "GroupTypeInUse" -> "HTTPBadRequest"
    [] err = "NotFound" -> "HTTPNotFound"
    [] OTHER -> "ok"

\* ShareGroupTypesController._delete
type_delete(id) ==
  LET args == [id |-> id]
      t1 == <<Ev("get_group_type", id, "")>>
      t2 == Append(t1, Ev("destroy", id, ""))
      Answer(err, trace) ==
        typeLast' = TypeCall("_delete", DeleteResponse(err),
                             IF err = "ok" THEN "" ELSE err, trace, id, args)
  IN
  /\ IF id \notin DOMAIN group_types
       THEN Answer("NotFound", t1) /\ UNCHANGED group_types
     ELSE IF InUse(group_types[id])
       THEN Answer("GroupTypeInUse", t2) /\ UNCHANGED group_types
     ELSE /\ Answer("ok", t2)
          /\ group_types' = [t \in DOMAIN group_types \ {id} |-> group_types[t]]
  /\ UNCHANGED <<nextType, orchVars, listVars, raceVars>>

\* A group of this type comes to exist (share_group_create with
\* share_group_type_id) or ceases to exist (share_group_destroy).
type_group_create(id) ==
  /\ id \in DOMAIN group_types
  /\ group_types[id].groups < MaxTypeGroups
  /\ group_types' = [group_types EXCEPT ![id].groups = @ + 1]
  /\ typeLast' = Idle
  /\ UNCHANGED <<nextType, orchVars, listVars, raceVars>>

type_group_destroy(id) ==
  /\ id \in DOMAIN group_types
  /\ group_types[id].groups > 0
  /\ group_types' = [group_types EXCEPT ![id].groups = @ - 1]
  /\ typeLast' = Idle
  /\ UNCHANGED <<nextType, orchVars, listVars, raceVars>>

InitTypes == StoreEmpty /\ ListIdle /\ RaceIdle /\ TypesIdle

NextTypes ==
  \/ \E n \in TypeNames, st \in TypeShareTypeLists, sp \in TypeSpecsInputs,
          pub \in BOOLEAN :
       type_create(n, st, sp, pub)
  \/ \E id \in TypeIds, pr \in AccessProjects : add_project_access(id, pr)
  \/ \E id \in TypeIds, pr \in AccessProjects : remove_project_access(id, pr)
  \/ \E id \in TypeIds : group_type_access(id)
  \/ \E id \in TypeIds : type_delete(id)
  \/ \E id \in TypeIds : type_group_create(id)
  \/ \E id \in TypeIds : type_group_destroy(id)

SpecTypes == InitTypes /\ [][NextTypes]_vars


\* ------------------------------------------------ group type queries
\* get_all_types, the index controller and group_types_diff over a table of
\* group types; none of them writes to the store.
SpecKeys == {"k1", "k2"}
SpecValues == {"a", "b"}
\* extra_specs maps: every map from a subset of SpecKeys to SpecValues
SpecMaps == UNION {[ks -> SpecValues] : ks \in SUBSET SpecKeys}

QueryNames == <<"gold", "silver">>
QueryTables ==
  UNION {[1..n -> {GroupTypeRec(QueryNames[1], pub, {"stT"}, sp, {}) :
                     pub \in BOOLEAN, sp \in SpecMaps}
                  \cup
                  {GroupTypeRec(QueryNames[2], pub, {"stT"}, sp, {}) :
                     pub \in BOOLEAN, sp \in SpecMaps}] :
         n \in 0..MaxTypes}

\* the value of search_opts['is_public']: the key is missing, or it holds
\* None, True or False
IsPublicFilters == {"unspecified", "None", "True", "False"}
SearchOpts ==
  [is_public : IsPublicFilters, has_extra_specs : BOOLEAN,
   extra_specs : SpecMaps, has_other : BOOLEAN]

\* db.group_type_get_all(context, inactive, filters=filters)
group_type_get_all(is_public) ==
  {t \in DOMAIN group_types :
     \/ is_public = "None"
     \/ is_public \in {"True", "unspecified"} /\ group_types[t].is_public
     \/ is_public = "False" /\ ~group_types[t].is_public}

\* _check_extra_specs_match(group_type, searchdict)
check_extra_specs_match(group_type, searchdict) ==
  \A k \in DOMAIN searchdict :
    ~(\/ k \notin DOMAIN group_type.extra_specs
      \/ group_type.extra_specs[k] # searchdict[k])

\* the keys left in search_opts after 'is_public' was popped
RemainingOpts(opts) ==
  (IF opts.has_extra_specs THEN {"extra_specs"} ELSE {})
    \cup (IF opts.has_other THEN {"other"} ELSE {})

\* filter_mapping = {'extra_specs': _check_extra_specs_match}
filter_mapping == {"extra_specs"}

\* group_types.get_all_types(context, search_opts=opts): the ids returned
get_all_types_result(opts) ==
  LET types == group_type_get_all(opts.is_public)
  IN IF RemainingOpts(opts) # {}
       THEN {t \in types :
               \E opt \in RemainingOpts(opts) :
                 /\ opt \in filter_mapping
                 /\ check_extra_specs_match(group_types[t], opts.extra_specs)}
       ELSE types

get_all_types(opts) ==
  /\ opts.has_extra_specs \/ opts.extra_specs = <<>>
  /\ typeLast' = TypeCall("get_all_types", "ok", "",
                          <<Ev("group_type_get_all", NoId, opts.is_public)>>,
                          NoId, opts)
                   @@ [result |-> get_all_types_result(opts)]
  /\ UNCHANGED <<group_types, nextType, orchVars, listVars, raceVars>>

\* req.params.get('is_public') of an index request
IsPublicParams == {None, "all", "ALL", "true", "False", "0", "junk"}

\* six.text_type(is_public).lower()
LowerText(s) ==
  CASE s = "ALL" -> "all"
    [] s = "False" -> "false"
    [] s = "True" -> "true"
    [] OTHER -> s

\* strutils.bool_from_string_strict(is_public, strict=True)
TRUE_STRINGS == {"1", "t", "true", "on", "y", "yes"}
FALSE_STRINGS == {"0", "f", "false", "off", "n", "no"}
bool_from_string_strict(s) ==
  IF LowerText(s) \in TRUE_STRINGS THEN "True"
  ELSE IF LowerText(s) \in FALSE_STRINGS THEN "False"
  ELSE "ValueError"

\* ShareGroupTypesController._parse_is_public
parse_is_public_default_all(is_public) ==
  IF is_public = None \/ LowerText(is_public) = "all" THEN "None"
  ELSE bool_from_string_strict(is_public)
parse_is_public(is_public) ==
  IF is_public = None THEN "True"
  ELSE IF LowerText(is_public) = "all" THEN "None"
  ELSE bool_from_string_strict(is_public)

\* ShareGroupTypesController.index / _get_group_types
index(is_admin, param) ==
  LET args == [is_admin |-> is_admin, is_public |-> param]
      f == IF is_admin THEN parse_is_public(param) ELSE "True"
      opts == [is_public |-> f, has_extra_specs |-> FALSE,
               extra_specs |-> <<>>, has_other |-> FALSE]
  IN
  /\ typeLast' =
       IF f = "ValueError"
         THEN TypeCall("index", "HTTPBadRequest", "is_public", <<>>, NoId, args)
                @@ [result |-> {}]
         ELSE TypeCall("index", "ok", "",
                       <<Ev("get_all_types", NoId, f)>>, NoId, args)
                @@ [result |-> get_all_types_result(opts)]
  /\ UNCHANGED <<group_types, nextType, orchVars, listVars, raceVars>>

\* dict.get(k)
DictGet(d, k) == IF k \in DOMAIN d THEN d[k] ELSE None

\* _dict_diff(dict1, dict2): first the loop over dict1, then the loop over
\* dict2, which overwrites the entries of the keys both have
dict_diff_first_loop_only(dict1, dict2) ==
  [res |-> [k \in DOMAIN dict1 |-> <<dict1[k], DictGet(dict2, k)>>],
   equal |-> \A k \in DOMAIN dict1 :
               ~(k \notin DOMAIN dict2 \/ dict1[k] # DictGet(dict2, k))]
dict_diff(dict1, dict2) ==
  LET res1 == [k \in DOMAIN dict1 |-> <<dict1[k], DictGet(dict2, k)>>]
      equal1 == \A k \in DOMAIN dict1 :
                  ~(k \notin DOMAIN dict2 \/ dict1[k] # DictGet(dict2, k))
      res2 == [k \in DOMAIN dict2 |-> <<DictGet(dict1, k), dict2[k]>>] @@ res1
      equal2 == \A k \in DOMAIN dict2 :
                  ~(k \notin DOMAIN dict1 \/ DictGet(dict1, k) # dict2[k])
  IN [res |-> res2, equal |-> equal1 /\ equal2]

\* group_types_diff(context, group_type_id1, group_type_id2) for two
\* existing types: (diff['extra_specs'], all_equal)
group_types_diff_result(id1, id2) ==
  dict_diff(group_types[id1].extra_specs, group_types[id2].extra_specs)

group_types_diff(id1, id2) ==
  LET args == [id1 |-> id1, id2 |-> id2]
      t1 == <<Ev("get_group_type", id1, "")>>
      t2 == Append(t1, Ev("get_group_type", id2, ""))
  IN
  /\ typeLast' =
       IF id1 \notin DOMAIN group_types
         THEN TypeCall("group_types_diff", "GroupTypeNotFound", "", t1, id1, args)
       ELSE IF id2 \notin DOMAIN group_types
         THEN TypeCall("group_types_diff", "GroupTypeNotFound", "", t2, id2, args)
       ELSE TypeCall("group_types_diff", "ok", "", t2, NoId, args)
              @@ [result |-> group_types_diff_result(id1, id2)]
  /\ UNCHANGED <<group_types, nextType, orchVars, listVars, raceVars>>

InitQuery ==
  /\ StoreEmpty /\ ListIdle /\ RaceIdle
  /\ group_types \in QueryTables
  /\ \A i, j \in DOMAIN group_types :
       group_types[i].name = group_types[j].name => i = j
  /\ nextType = Len(group_types) + 1
  /\ typeLast = Idle

NextQuery ==
  \/ \E opts \in SearchOpts : get_all_types(opts)
  \/ \E a \in BOOLEAN, p \in IsPublicParams : index(a, p)
  \/ \E id1, id2 \in TypeIds : group_types_diff(id1, id2)

SpecQuery == InitQuery /\ [][NextQuery]_vars

\* ------------------------------------------------ parse_boolean_extra_spec
\* A string is the sequence of its characters.
LeadTexts ==
  {<<>>, <<" ">>, <<"\n", "\t">>}
PrefixTexts ==
  {<<"<", "i", "s", ">">>, <<"<", "I", "S", ">">>,
   <<"<", "i", "s", "n", "t", ">">>, <<>>, <<"i", "s", ">">>}
MiddleTexts ==
  {<<>>, <<" ">>, <<"\t", "\n">>, <<"x">>}
WordTexts ==
  {<<"T", "r", "u", "e">>, <<"F", "a", "l", "s", "e">>,
   <<"F", "a", "L", "s", "E">>, <<"W", "r", "o", "n", "g">>,
   <<"T", "r", "u", "e", "e">>, <<"T", "r", " ", "u", "e">>, <<>>}
TrailTexts ==
  {<<>>, <<" ">>, <<"x">>}

\* The values handed to parse_boolean_extra_spec: strings, None, a number
\* and a boolean.
StrValue(chars) == [type |-> "str", chars |-> chars]
SpecTexts ==
  {l \o p \o m \o w \o r :
     l \in LeadTexts, p \in PrefixTexts, m \in MiddleTexts,
     w \in WordTexts, r \in TrailTexts}
ParseValues ==
  {StrValue(s) : s \in SpecTexts}
    \cup {[type |-> ty, chars |-> <<>>] : ty \in {"NoneType", "int", "bool"}}

\* \s and str.strip()
Whitespace == {" ", "\t", "\n"}

RECURSIVE lstrip(_)
lstrip(s) ==
  IF s # <<>> /\ Head(s) \in Whitespace THEN lstrip(Tail(s)) ELSE s

RECURSIVE rstrip(_)
rstrip(s) ==
  IF s # <<>> /\ s[Len(s)] \in Whitespace
    THEN rstrip(SubSeq(s, 1, Len(s) - 1)) ELSE s

\* extra_spec_value.strip()
strip(s) == rstrip(lstrip(s))

\* re.IGNORECASE
fold_case_exact(c) == c
fold_case(c) ==
  CASE c = "I" -> "i" [] c = "S" -> "s" [] c = "T" -> "t" [] c = "R" -> "r"
    [] c = "U" -> "u" [] c = "E" -> "e" [] c = "F" -> "f" [] c = "A" -> "a"
    [] c = "L" -> "l" [] c = "W" -> "w" [] OTHER -> c

FoldSeq(s) == [i \in DOMAIN s |-> fold_case(s[i])]

\* re.match(r'^<is>\s*(?P<value>True|False)$', s, re.IGNORECASE): the
\* text of group 'value', or <<>> when there is no match
re_match(s) ==
  IF Len(s) < 4 \/ FoldSeq(SubSeq(s, 1, 4)) # <<"<", "i", "s", ">">>
    THEN <<>>
    ELSE LET rest == lstrip(SubSeq(s, 5, Len(s)))
         IN IF FoldSeq(rest) \in {<<"t", "r", "u", "e">>,
                                  <<"f", "a", "l", "s", "e">>}
              THEN rest ELSE <<>>

\* strutils.bool_from_string(match.group('value'), strict=True) lowers its
\* argument
str_lower(s) ==
  [i \in DOMAIN s |->
     CASE s[i] = "T" -> "t" [] s[i] = "R" -> "r" [] s[i] = "U" -> "u"
       [] s[i] = "E" -> "e" [] s[i] = "F" -> "f" [] s[i] = "A" -> "a"
       [] s[i] = "L" -> "l" [] s[i] = "S" -> "s" [] OTHER -> s[i]]

\* parse_boolean_extra_spec(extra_spec_key, extra_spec_value)
parse_boolean_extra_spec_result(v) ==
  IF v.type # "str" THEN "InvalidExtraSpec"
  ELSE LET value == re_match(strip(v.chars))
       IN IF value = <<>> THEN "InvalidExtraSpec"
          ELSE IF str_lower(value) = <<"t", "r", "u", "e">> THEN "True"
          ELSE IF str_lower(value) = <<"f", "a", "l", "s", "e">> THEN "False"
          ELSE "InvalidExtraSpec"

parse_boolean_extra_spec(v) ==
  /\ typeLast' = TypeCall("parse_boolean_extra_spec",
                          parse_boolean_extra_spec_result(v), "", <<>>,
                          NoId, v)
  /\ UNCHANGED <<group_types, nextType, orchVars, listVars, raceVars>>

NextParse == \E v \in ParseValues : parse_boolean_extra_spec(v)

SpecParse == InitTypes /\ [][NextParse]_vars

\* ------------------------------------------- group type extra specs
\* GroupTypeExtraSpecsController.create / update.  A key or a value of a
\* request body is described by its Python type, its length and, for a
\* dict, its entries (a function from keys to values).
MaxStringLen == 255

Item(kind, len, chars_ok, entries) ==
  [kind |-> kind, len |-> len, chars_ok |-> chars_ok, entries |-> entries]
Str(len) == Item("str", len, TRUE, <<>>)
\* a string of 3 characters, one of them '/'
KSlash == Item("str", 3, FALSE, <<>>)
KInt == Item("int", 0, TRUE, <<>>)
Dict(entries) == Item("dict", 0, TRUE, entries)

BodyKeys ==
  {Str(0), Str(1), Str(MaxStringLen), Str(MaxStringLen + 1), KSlash, KInt}
Leaves ==
  {Str(0), Str(1), Str(MaxStringLen), Str(MaxStringLen + 1),
   Item("bool", 0, TRUE, <<>>), Item("NoneType", 0, TRUE, <<>>)}
NestedKeys == {Str(0), Str(1), Str(MaxStringLen + 1), KInt}
FlatDicts == {<<>>} \cup {k :> v : k \in NestedKeys, v \in Leaves}
DeepDicts ==
  {Str(1) :> Dict(d) :
     d \in {<<>>, Str(1) :> Str(1), Str(1) :> Str(0), Str(0) :> Str(1)}}
BodyValues ==
  Leaves \cup {Dict(d) : d \in FlatDicts} \cup {Dict(d) : d \in DeepDicts}
\* the dicts sent as body['extra_specs'] (create) or as body (update)
Bodies ==
  {<<>>} \cup {k :> v : k \in BodyKeys, v \in BodyValues}
    \cup {(Str(1) :> v) @@ (k :> w) :
            k \in {Str(MaxStringLen), Str(0)}, v \in Leaves, w \in Leaves}
UriKeys == {Str(1), KSlash}

\* is_valid_string(v)
is_valid_string_upto_256(v) ==
  v.kind = "str" /\ v.len \in 1..(MaxStringLen + 1)
is_valid_string(v) == v.kind = "str" /\ v.len \in 1..MaxStringLen

\* is_valid_extra_spec(k, v)
is_valid_extra_spec(k, v) ==
  is_valid_string(k) /\ (is_valid_string(v) \/ v.kind = "bool")

\* _verify_extra_specs(extra_specs): TRUE when it returns, FALSE when it
\* raises HTTPBadRequest
RECURSIVE verify_extra_specs(_)
verify_extra_specs(extra_specs) ==
  \A k \in DOMAIN extra_specs :
    IF is_valid_string(k) /\ extra_specs[k].kind = "dict"
      THEN verify_extra_specs(extra_specs[k].entries)
      ELSE is_valid_extra_spec(k, extra_specs[k])

\* common.validate_key_names(keys)
validate_key_names(keys) == \A k \in keys : k.chars_ok

\* db.group_type_extra_specs_update_or_create(context, type_id, specs)
extra_specs_update_or_create(type_id, specs) ==
  [group_types EXCEPT ![type_id].extra_specs = specs @@ @]

\* Requests are followed up to the first one that writes.
NoWriteYet == typeLast.res # "ok"

ExtraSpecsAnswer(op, res, why, trace, type_id, args) ==
  typeLast' = TypeCall(op, res, why, trace, type_id, args)

\* GroupTypeExtraSpecsController.create
extra_specs_create(type_id, has_body, specs) ==
  LET args == [has_body |-> has_body, body |-> specs, key |-> Str(0)]
      t1 == <<Ev("get_group_type", type_id, "")>>
      t2 == Append(t1, Ev("group_type_extra_specs_update_or_create",
                          type_id, ""))
      Reject(res, why, trace) ==
        /\ ExtraSpecsAnswer("extra_specs.create", res, why, trace, type_id, args)
        /\ UNCHANGED group_types
  IN
  /\ NoWriteYet
  /\ has_body \/ specs = <<>>
  /\ IF ~has_body THEN Reject("HTTPBadRequest", "body", <<>>)
     ELSE IF type_id \notin DOMAIN group_types
       THEN Reject("HTTPNotFound", "", t1)
     ELSE IF ~verify_extra_specs(specs)
       THEN Reject("HTTPBadRequest", "extra_spec", t1)
     ELSE IF ~validate_key_names(DOMAIN specs)
       THEN Reject("HTTPBadRequest", "key_names", t1)
     ELSE /\ ExtraSpecsAnswer("extra_specs.create", "ok", "", t2, type_id, args)
          /\ group_types' = extra_specs_update_or_create(type_id, specs)
  /\ UNCHANGED <<nextType, orchVars, listVars, raceVars>>

\* GroupTypeExtraSpecsController.update
extra_specs_update(type_id, key, has_body, body) ==
  LET args == [has_body |-> has_body, body |-> body, key |-> key]
      t1 == <<Ev("get_group_type", type_id, "")>>
      t2 == Append(t1, Ev("group_type_extra_specs_update_or_create",
                          type_id, ""))
      Reject(res, why, trace) ==
        /\ ExtraSpecsAnswer("extra_specs.update", res, why, trace, type_id, args)
        /\ UNCHANGED group_types
  IN
  /\ NoWriteYet
  /\ has_body \/ body = <<>>
  /\ IF ~has_body \/ body = <<>> THEN Reject("HTTPBadRequest", "body", <<>>)
     ELSE IF type_id \notin DOMAIN group_types
       THEN Reject("HTTPNotFound", "", t1)
     ELSE IF key \notin DOMAIN body
       THEN Reject("HTTPBadRequest", "mismatch", t1)
     ELSE IF Cardinality(DOMAIN body) > 1
       THEN Reject("HTTPBadRequest", "too_many", t1)
     ELSE IF ~verify_extra_specs(body)
       THEN Reject("HTTPBadRequest", "extra_spec", t1)
     ELSE /\ ExtraSpecsAnswer("extra_specs.update", "ok", "", t2, type_id, args)
          /\ group_types' = extra_specs_update_or_create(type_id, body)
  /\ UNCHANGED <<nextType, orchVars, listVars, raceVars>>

\* One group type exists, holding no or one extra spec.
InitExtraSpecs ==
  /\ StoreEmpty /\ ListIdle /\ RaceIdle
  /\ \E sp \in {<<>>, Str(1) :> Str(1)} :
       group_types = <<GroupTypeRec("gold", TRUE, {"stT"}, sp, {})>>
  /\ nextType = 2
  /\ typeLast = Idle

NextExtraSpecs ==
  \/ \E id \in TypeIds, hb \in BOOLEAN, b \in Bodies :
       extra_specs_create(id, hb, b)
  \/ \E id \in TypeIds, k \in UriKeys, hb \in BOOLEAN, b \in Bodies :
       extra_specs_update(id, k, hb, b)

SpecExtraSpecs == InitExtraSpecs /\ [][NextExtraSpecs]_vars

\* ================================================================ claims
ApiOps == {"create", "delete", "create_group_snapshot", "delete_group_snapshot"}

RaisedIn(trace, what) ==
  \E i \in DOMAIN trace : trace[i].ev = "raise" /\ trace[i].s = what

CreateCommandSent(trace) ==
  \/ HasEvent(trace, "scheduler_rpcapi.create_share_group")
  \/ HasEvent(trace, "share_rpcapi.create_share_group")

\* C1: when API.create clones a snapshot and the share creation for one of
\* its members raises, the group persisted by the call is gone when the call
\* returns, the caller gets the original exception, and no create command
\* went to the scheduler or to a backend host.
C1_CloneFailureCompensated ==
  (last.op = "create" /\ RaisedIn(last.trace, "share_api.create")) =>
    /\ HasEvent(last.trace, "share_group_create")
    /\ last.id \notin DOMAIN groups
    /\ last.res = "ShareCreateError"
    /\ ~CreateCommandSent(last.trace)

\* C1 witness: the clone of a three-member snapshot failed at its middle
\* member, after one share had been created.
C1_Witness ==
  /\ last.op = "create"
  /\ RaisedIn(last.trace, "share_api.create")
  /\ Len(last.pre.members) = 3
  /\ last.args.failAt = 2
  /\ HasEvent(last.trace, "share_api.create")

\* C2: no failed API.create leaves behind the group record it persisted:
\* whenever a step after share_group_create fails (member share creation or
\* the dispatch), the record is gone when the error reaches the caller.
C2_NoFailedCreateLeavesGroup ==
  (last.op = "create" /\ last.res # "ok"
     /\ HasEvent(last.trace, "share_group_create")) =>
    last.id \notin DOMAIN groups

\* C3: when API.create_group_snapshot fails after persisting the snapshot
\* (a member create or the dispatch raises), the snapshot and every member
\* created for it are gone when the call returns, and the exception raised
\* is the one re-raised to the caller.
C3_SnapshotFailureCompensated ==
  (last.op = "create_group_snapshot"
     /\ HasEvent(last.trace, "group_snapshot_create") /\ last.res # "ok") =>
    /\ last.id \notin DOMAIN snaps
    /\ \A m \in members : m.group_snapshot_id # last.id
    /\ last.trace[Len(last.trace)] = Ev("group_snapshot_destroy", last.id, "")
    /\ (RaisedIn(last.trace, "group_snapshot_member_create")
          => last.res = "MemberCreateError")
    /\ (RaisedIn(last.trace, "share_rpcapi.create_group_snapshot")
          => last.res = "DispatchError")

\* C3 witness: the second member create raised after the first member had
\* been persisted.
C3_Witness ==
  /\ last.op = "create_group_snapshot"
  /\ RaisedIn(last.trace, "group_snapshot_member_create")
  /\ HasEvent(last.trace, "group_snapshot_member_create")
  /\ last.res = "MemberCreateError"

\* The group and every share of it were AVAILABLE when the call read them.
C4_ChecksPassed(pre) ==
  /\ pre.status = STATUS_AVAILABLE
  /\ \A i \in DOMAIN pre.share_status : pre.share_status[i] = STATUS_AVAILABLE

\* C4: API.create_group_snapshot persists a snapshot only if the group and
\* every share of the group were AVAILABLE when it checked; for an existing
\* group that fails the check it raises InvalidShareGroup, leaves snapshots
\* and members as they were and dispatches nothing.
C4_SnapshotOnlyWhenAllAvailable ==
  [][(last'.op = "create_group_snapshot" /\ last'.res # "ShareGroupNotFound") =>
       /\ (HasEvent(last'.trace, "group_snapshot_create")
             => C4_ChecksPassed(last'.pre))
       /\ (last'.res = "ok" =>
             /\ C4_ChecksPassed(last'.pre)
             /\ last'.id \in DOMAIN snaps' /\ last'.id \notin DOMAIN snaps)
       /\ (~C4_ChecksPassed(last'.pre) =>
             /\ last'.res = "InvalidShareGroup"
             /\ snaps' = snaps /\ members' = members /\ nextSnap' = nextSnap
             /\ ~HasEvent(last'.trace, "group_snapshot_create")
             /\ ~HasEvent(last'.trace, "group_snapshot_member_create")
             /\ ~HasEvent(last'.trace, "share_rpcapi.create_group_snapshot"))
    ]_vars

\* C4 witness: the group was AVAILABLE but one of its two shares was not,
\* and the call was refused.
C4_Witness ==
  /\ last.op = "create_group_snapshot"
  /\ last.res = "InvalidShareGroup"
  /\ last.pre.status = STATUS_AVAILABLE
  /\ Len(last.pre.shares) >= 2
  /\ \E i \in DOMAIN last.pre.share_status :
       last.pre.share_status[i] = STATUS_AVAILABLE

\* C5 (as claimed): API.delete on a group that contains a share or a group
\* snapshot fails with InvalidShareGroup and leaves the record unchanged,
\* whatever the group's host and status.
C5_DeleteWithChildrenAlwaysFails ==
  [][(last'.op = "delete"
        /\ (last'.pre.nsnaps > 0 \/ last'.pre.nshares > 0)) =>
       /\ last'.res = "InvalidShareGroup"
       /\ groups' = groups
    ]_vars

\* C5 (amended): API.delete on a group that has a host and contains a share
\* or a group snapshot fails with InvalidShareGroup and leaves the record
\* unchanged, whatever the group's status.
C5_HostedDeleteWithChildrenFails ==
  [][(last'.op = "delete" /\ last'.pre.host # None
        /\ (last'.pre.nsnaps > 0 \/ last'.pre.nshares > 0)) =>
       /\ last'.res = "InvalidShareGroup"
       /\ groups' = groups
       /\ ~HasEvent(last'.trace, "share_rpcapi.delete_share_group")
    ]_vars

\* C5 witness: a hosted AVAILABLE group with shares and no snapshot was
\* refused.
C5_Witness ==
  /\ last.op = "delete"
  /\ last.pre.host # None
  /\ last.pre.status = STATUS_AVAILABLE
  /\ last.pre.nshares > 0 /\ last.pre.nsnaps = 0
  /\ last.res = "InvalidShareGroup"
  /\ last.id \in DOMAIN groups

\* C6: API.delete on a group without a host succeeds whatever the status:
\* the record is destroyed, nothing is sent to the backend and the status
\* is never set to DELETING.
C6_HostlessDeleteDestroys ==
  (last.op = "delete" /\ last.pre.host = None) =>
    /\ last.res = "ok"
    /\ last.id \notin DOMAIN groups
    /\ last.trace = <<Ev("share_group_destroy", last.id, "")>>

\* C6 witness: a host-less group in ERROR was deleted.
C6_Witness ==
  /\ last.op = "delete"
  /\ last.pre.host = None
  /\ last.pre.status = STATUS_ERROR
  /\ last.res = "ok"


MovesToDeleting(old, new, x) ==
  /\ x \in DOMAIN new
  /\ new[x].status = STATUS_DELETING
  /\ old[x].status # STATUS_DELETING

Removed(old, new, x) == x \in DOMAIN old /\ x \notin DOMAIN new

LeavableStatuses == {STATUS_AVAILABLE, STATUS_ERROR}

\* A record the call itself persisted earlier in its trace.
CreatedEarlier(trace, i, create_ev) ==
  \E j \in 1..(i - 1) : trace[j].ev = create_ev /\ trace[j].id = trace[i].id

\* C7 (as claimed): in every API operation a group or group snapshot moves
\* to DELETING, or is removed from the store, only if its status immediately
\* before was AVAILABLE or ERROR.
C7_LeaveOnlyFromAvailableOrError ==
  [][last'.op \in ApiOps =>
       /\ \A g \in DOMAIN groups :
            (MovesToDeleting(groups, groups', g) \/ Removed(groups, groups', g))
              => groups[g].status \in LeavableStatuses
       /\ \A s \in DOMAIN snaps :
            (MovesToDeleting(snaps, snaps', s) \/ Removed(snaps, snaps', s))
              => snaps[s].status \in LeavableStatuses
    ]_vars

\* C7 (amended): in every API operation a group or group snapshot moves to
\* DELETING only if its status immediately before was AVAILABLE or ERROR (and
\* a group only if it has a host); a record is removed from the store by an
\* API operation only when it is a group without a host handed to delete
\* (whatever its status) or a record the same call created and destroys again
\* in its compensation (still CREATING); delete on a hosted group whose status
\* is not AVAILABLE or ERROR raises InvalidShareGroup and changes nothing.
C7_DeletingOnlyFromAvailableOrError ==
  [][last'.op \in ApiOps =>
       /\ \A g \in DOMAIN groups :
            /\ MovesToDeleting(groups, groups', g) =>
                 /\ groups[g].status \in LeavableStatuses
                 /\ groups[g].host # None
                 /\ last'.op = "delete" /\ last'.id = g
            /\ Removed(groups, groups', g) =>
                 /\ last'.op = "delete" /\ last'.id = g
                 /\ groups[g].host = None
       /\ \A s \in DOMAIN snaps :
            /\ MovesToDeleting(snaps, snaps', s) =>
                 /\ snaps[s].status \in LeavableStatuses
                 /\ last'.op = "delete_group_snapshot" /\ last'.id = s
            /\ ~Removed(snaps, snaps', s)
       /\ \A i \in DOMAIN last'.trace :
            /\ (last'.trace[i].ev = "share_group_destroy" /\ last'.op # "delete")
                 => CreatedEarlier(last'.trace, i, "share_group_create")
            /\ last'.trace[i].ev = "group_snapshot_destroy"
                 => CreatedEarlier(last'.trace, i, "group_snapshot_create")
       /\ (last'.op = "delete" /\ last'.pre.host # None
             /\ last'.pre.status \notin LeavableStatuses) =>
            /\ last'.res = "InvalidShareGroup"
            /\ groups' = groups
    ]_vars

\* C7 witness: delete was refused for a hosted group in CREATING.
C7_Witness ==
  /\ last.op = "delete"
  /\ last.pre.host # None
  /\ last.pre.status = STATUS_CREATING
  /\ last.res = "InvalidShareGroup"
  /\ groups[last.id].status = STATUS_CREATING

\* C8: a successful API.delete on a hosted group sets the status to DELETING
\* and then sends exactly one delete_share_group command to the group's
\* host; the record is not destroyed and is in DELETING when the call
\* returns.
C8_HostedDeleteMarksThenDispatches ==
  (last.op = "delete" /\ last.res = "ok" /\ last.pre.host # None) =>
    /\ last.pre.status \in {STATUS_AVAILABLE, STATUS_ERROR}
    /\ last.pre.nshares = 0 /\ last.pre.nsnaps = 0
    /\ last.id \in DOMAIN groups
    /\ groups[last.id].status = STATUS_DELETING
    /\ groups[last.id].host = last.pre.host
    /\ CountEvent(last.trace, "share_group_update") = 1
    /\ CountEvent(last.trace, "share_rpcapi.delete_share_group") = 1
    /\ FirstIndex(last.trace, "share_group_update")
         < FirstIndex(last.trace, "share_rpcapi.delete_share_group")
    /\ last.trace[Len(last.trace)]
         = Ev("share_rpcapi.delete_share_group", last.id, last.pre.host)
    /\ ~HasEvent(last.trace, "share_group_destroy")

\* C8 witness: a hosted group in ERROR was deleted successfully.
C8_Witness ==
  /\ last.op = "delete"
  /\ last.res = "ok"
  /\ last.pre.host # None
  /\ last.pre.status = STATUS_ERROR

\* C9 (as claimed): API.create from a snapshot whose parent group is not
\* AVAILABLE fails with InvalidGroupSnapshot, also when the snapshot itself
\* is AVAILABLE.
C9_ParentNotAvailableRejected ==
  (last.op = "create" /\ last.args.snap # NoId
     /\ last.pre.parent_status \notin {None, STATUS_AVAILABLE}) =>
    last.res = "InvalidGroupSnapshot"

\* C9 (amended): API.create from an existing snapshot fails with
\* InvalidGroupSnapshot exactly when the snapshot's own status is not
\* AVAILABLE; the status of the parent group is not examined, so with an
\* AVAILABLE snapshot the call is not refused with InvalidGroupSnapshot
\* whatever the parent group's status.
C9_OnlySnapshotStatusDecides ==
  (last.op = "create" /\ last.args.snap # NoId
     /\ last.pre.snap_status # None) =>
    (last.res = "InvalidGroupSnapshot"
       <=> last.pre.snap_status # STATUS_AVAILABLE)

\* C9 witness: a clone was created from an AVAILABLE snapshot whose parent
\* group was in ERROR.
C9_Witness ==
  /\ last.op = "create"
  /\ last.args.snap # NoId
  /\ last.pre.snap_status = STATUS_AVAILABLE
  /\ last.pre.parent_status = STATUS_ERROR
  /\ last.res = "ok"
  /\ last.id \in DOMAIN groups

\* C10: API.create with a source snapshot that is not AVAILABLE fails with
\* InvalidGroupSnapshot having read nothing but the snapshot (no parent
\* group, share type, share network or group type lookup), and persists no
\* group.
C10_SnapshotStatusCheckedFirst ==
  [][(last'.op = "create" /\ last'.args.snap # NoId
        /\ last'.pre.snap_status \notin {None, STATUS_AVAILABLE}) =>
       /\ last'.res = "InvalidGroupSnapshot"
       /\ last'.trace = <<Ev("group_snapshot_get", last'.args.snap, "")>>
       /\ groups' = groups /\ shares' = shares /\ nextGroup' = nextGroup
    ]_vars

\* C10 witness: a request naming a snapshot in ERROR and an unknown share
\* type was refused for the snapshot's status.
C10_Witness ==
  /\ last.op = "create"
  /\ last.args.snap # NoId
  /\ last.pre.snap_status = STATUS_ERROR
  /\ last.args.stids = <<"stX">>
  /\ last.res = "InvalidGroupSnapshot"

\* ------------------------------------------ the inputs create validates
\* A share type that exists and whose extra_specs name the flag.
CarriesDhss(st) ==
  /\ st \in DOMAIN ShareTypeDB
  /\ DRIVER_HANDLES_SHARE_SERVERS \in DOMAIN ShareTypeDB[st]

CarriedValues(stids) ==
  {ShareTypeDB[stids[i]][DRIVER_HANDLES_SHARE_SERVERS] :
     i \in {k \in DOMAIN stids : CarriesDhss(stids[k])}}

\* The call named a source snapshot that was AVAILABLE and whose parent
\* group existed, so the parent's values replaced the caller's.
SnapshotLoaded(l) ==
  /\ l.args.snap # NoId
  /\ l.pre.snap_status = STATUS_AVAILABLE
  /\ l.pre.parent_status # None

\* The share types and the share network the validation of a call works on:
\* the caller's, or the parent group's when a source snapshot was loaded.
TypesInForce(l) ==
  IF l.args.snap = NoId THEN l.args.stids
  ELSE IF SnapshotLoaded(l) THEN TypeSeq(l.pre.parent.share_types)
  ELSE <<>>

NetworkInForce(l) ==
  IF l.args.snap = NoId THEN l.args.net
  ELSE IF SnapshotLoaded(l) THEN l.pre.parent.share_network_id
  ELSE None

Persisted(l) == HasEvent(l.trace, "share_group_create")

\* C11 (as claimed): every group record persisted by API.create has a
\* share_types set that is non-empty and is a subset of the share types its
\* group type permits.
C11_ShareTypesNonEmptySubset ==
  \A g \in DOMAIN groups :
    /\ groups[g].share_types # {}
    /\ groups[g].share_types \subseteq GroupTypeDB[groups[g].share_group_type_id]

\* C12 (as claimed): a group persisted by API.create from a source snapshot
\* has exactly the share types, the share network and the share server of
\* the snapshot's parent group, whatever the caller passed.
C12_CloneInheritsFromParent ==
  (last.op = "create" /\ last.args.snap # NoId /\ Persisted(last)
     /\ last.id \in DOMAIN groups) =>
    /\ groups[last.id].share_types = last.pre.parent.share_types
    /\ groups[last.id].share_network_id = last.pre.parent.share_network_id
    /\ groups[last.id].share_server_id = last.pre.parent.share_server_id

\* C13: every successful API.create sends exactly one create command: to the
\* backend dispatcher, targeted at the source group's host, if and only if a
\* source snapshot was given (the scheduler is then not contacted); otherwise
\* to the scheduler, with a request spec that carries the group id, the
\* resolved share-type objects and the resolved group type (no backend host
\* is then contacted).
C13_ExactlyOneCreateCommand ==
  (last.op = "create" /\ last.res = "ok") =>
    LET tr == last.trace
        e == tr[Len(tr)]
        nb == CountEvent(tr, "share_rpcapi.create_share_group")
        ns == CountEvent(tr, "scheduler_rpcapi.create_share_group")
    IN /\ nb + ns = 1
       /\ nb = 1 <=> last.args.snap # NoId
       /\ last.args.snap # NoId =>
            e = Ev("share_rpcapi.create_share_group", last.id,
                   last.pre.parent.host)
       /\ last.args.snap = NoId =>
            /\ e.ev = "scheduler_rpcapi.create_share_group"
            /\ e.id = last.id
            /\ e.spec.share_group_id = last.id
            /\ e.spec.share_types =
                 [i \in DOMAIN last.args.stids |->
                    [id |-> last.args.stids[i],
                     extra_specs |-> ShareTypeDB[last.args.stids[i]]]]
            /\ e.spec.resource_type =
                 [id |-> last.args.gt, share_types |-> GroupTypeDB[last.args.gt]]

\* C13 witness: a clone of a snapshot whose parent group has a host was
\* created and its command went to that host.
C13_Witness ==
  /\ last.op = "create" /\ last.res = "ok"
  /\ last.args.snap # NoId
  /\ last.pre.parent.host \in Hosts
  /\ HasEvent(last.trace, "share_rpcapi.create_share_group")

\* C14: API.create whose share types in force (the caller's list, or the
\* parent group's types when a source snapshot was loaded) carry conflicting
\* driver_handles_share_servers values fails with InvalidInput and persists
\* no group, for every ordering of the list and every position of the
\* conflicting pair in it.
C14_ConflictingDhssRejected ==
  [][(last'.op = "create"
        /\ Cardinality(CarriedValues(TypesInForce(last'))) > 1) =>
       /\ last'.res = "InvalidInput"
       /\ ~Persisted(last')
       /\ groups' = groups /\ nextGroup' = nextGroup
    ]_vars

\* C14 witness: a list of three with the conflicting pair at positions 1
\* and 3, the type that says False first, was refused.
C14_Witness ==
  /\ last.op = "create"
  /\ last.args.stids = <<"stF", "stE", "stT">>
  /\ last.res = "InvalidInput"
  /\ last.why = "dhss_conflict"

\* C15: API.create persists a group only when the share network in force is
\* consistent with the driver_handles_share_servers flag of the share types
\* in force: when the flag is false and a share network is supplied the call
\* fails with InvalidInput, and when the flag is true and neither a source
\* snapshot nor a share network is supplied it fails with InvalidInput; in
\* both cases no group is persisted.
C15_NetworkConsistentWithDhss ==
  [][(last'.op = "create"
        /\ \/ /\ CarriedValues(TypesInForce(last')) = {"False"}
              /\ NetworkInForce(last') # None
           \/ /\ CarriedValues(TypesInForce(last')) = {"True"}
              /\ last'.args.snap = NoId
              /\ last'.args.net = None) =>
       /\ last'.res = "InvalidInput"
       /\ ~Persisted(last')
       /\ groups' = groups /\ nextGroup' = nextGroup
    ]_vars

\* C15 witness: a request for a share type whose flag is true, with neither
\* a source snapshot nor a share network, was refused.
C15_Witness ==
  /\ last.op = "create"
  /\ last.args.stids = <<"stT">>
  /\ last.args.snap = NoId /\ last.args.net = None
  /\ last.res = "InvalidInput"
  /\ last.why = "network_required"

\* C16: API.delete_group_snapshot on a snapshot (of an existing group) whose
\* status is not AVAILABLE or ERROR raises InvalidGroupSnapshot, leaves the
\* status unchanged and dispatches nothing; otherwise it sets the status to
\* DELETING and then sends exactly one delete command to the host of the
\* snapshot's parent group, without destroying the record or its members.
C16_SnapshotDeleteGuarded ==
  [][(last'.op = "delete_group_snapshot" /\ last'.pre.parent_exists) =>
       LET tr == last'.trace
           sn == last'.id
       IN IF last'.pre.status \notin {STATUS_AVAILABLE, STATUS_ERROR}
            THEN /\ last'.res = "InvalidGroupSnapshot"
                 /\ snaps' = snaps /\ members' = members
                 /\ ~HasEvent(tr, "group_snapshot_update")
                 /\ ~HasEvent(tr, "share_rpcapi.delete_group_snapshot")
            ELSE /\ sn \in DOMAIN snaps'
                 /\ snaps' = [snaps EXCEPT ![sn].status = STATUS_DELETING]
                 /\ members' = members
                 /\ ~HasEvent(tr, "group_snapshot_destroy")
                 /\ CountEvent(tr, "group_snapshot_update") = 1
                 /\ FirstIndex(tr, "group_snapshot_update") = Len(tr) - 1
                 /\ IF last'.res = "ok"
                      THEN /\ CountEvent(tr, "share_rpcapi.delete_group_snapshot") = 1
                           /\ tr[Len(tr)] = Ev("share_rpcapi.delete_group_snapshot",
                                               sn, last'.pre.parent_host)
                      ELSE /\ last'.res = "DispatchError"
                           /\ RaisedIn(tr, "share_rpcapi.delete_group_snapshot")
    ]_vars

\* C16 witness: the delete of a snapshot in CREATING whose parent group
\* exists was refused and the snapshot is still in CREATING.
C16_Witness ==
  /\ last.op = "delete_group_snapshot"
  /\ last.pre.parent_exists
  /\ last.pre.status = STATUS_CREATING
  /\ last.res = "InvalidGroupSnapshot"
  /\ snaps[last.id].status = STATUS_CREATING

ListOps == {"get_all", "get_all_group_snapshots", "get_all_group_snapshot_members"}

\* C17 (as claimed): for get_all, get_all_group_snapshots and
\* get_all_group_snapshot_members a caller who is not admin receives only
\* records of the caller's own project, whatever all_tenants says; the
\* unscoped store listing is used only for an admin with all_tenants set, and
\* an admin without all_tenants receives only the admin's own project.
C17_ListingsScoped ==
  listed.op \in ListOps =>
    LET own == \A r \in listed.result :
                 r.project_id = listed.context.project_id
        wide == listed.context.is_admin /\ Truthy(listed.all_tenants)
    IN /\ ~listed.context.is_admin => own
       /\ listed.call \in {"share_group_get_all", "group_snapshot_get_all"}
            => wide
       /\ ~wide => own

\* C18 (as claimed): under every interleaving of delete and
\* create_group_snapshot requests on the same hosted group, no reachable
\* state has a group in DELETING that owns a group snapshot persisted by
\* create_group_snapshot.
C18_NoDeletingGroupWithSnapshot ==
  \A g \in DOMAIN groups :
    groups[g].status = STATUS_DELETING =>
      \A s \in DOMAIN snaps : snaps[s].share_group_id # g

\* C19: every group, group snapshot and snapshot member that an API
\* operation adds to the store has status CREATING, and a successful
\* create_group_snapshot adds exactly one member per share the group
\* contained, each for the new snapshot and carrying that share's id, size,
\* protocol and instance id.
C19_CreatedInCreating ==
  [][last'.op \in ApiOps =>
       /\ \A g \in DOMAIN groups' \ DOMAIN groups :
            groups'[g].status = STATUS_CREATING
       /\ \A s \in DOMAIN snaps' \ DOMAIN snaps :
            snaps'[s].status = STATUS_CREATING
       /\ \A m \in members' \ members : m.status = STATUS_CREATING
       /\ (last'.op = "create_group_snapshot" /\ last'.res = "ok") =>
            LET new == members' \ members
                contained == {s \in DOMAIN shares :
                                shares[s].share_group_id = last'.args.group}
            IN /\ Cardinality(new) = Cardinality(contained)
               /\ \A m \in new : m.group_snapshot_id = last'.id
               /\ \A s \in contained : \E m \in new :
                    /\ m.share_id = s
                    /\ m.size = shares[s].size
                    /\ m.share_proto = shares[s].share_proto
                    /\ m.share_instance_id = shares[s].instance_id
    ]_vars

\* C19 witness: a snapshot of a group with three shares was created; the
\* snapshot and its three members are in CREATING.
C19_Witness ==
  /\ last.op = "create_group_snapshot" /\ last.res = "ok"
  /\ snaps[last.id].status = STATUS_CREATING
  /\ Cardinality({m \in members : m.group_snapshot_id = last.id
                                  /\ m.status = STATUS_CREATING}) = 3

PublicTypesHaveNoAccess ==
  \A t \in DOMAIN group_types :
    group_types[t].is_public => group_types[t].projects = {}

AccessCallMade(trace) ==
  \/ HasEvent(trace, "add_group_type_access")
  \/ HasEvent(trace, "remove_group_type_access")

DeleteOfTypeInUse ==
  /\ typeLast'.op = "_delete"
  /\ typeLast'.id \in DOMAIN group_types
  /\ group_types[typeLast'.id].groups > 0

\* C21 as stated: deleting a group type that an existing group still
\* references is not performed, is answered with a conflict, and the group
\* type record remains.
C21_DeleteInUseIsConflict ==
  [][DeleteOfTypeInUse =>
       /\ typeLast'.res = "HTTPConflict"
       /\ group_types' = group_types]_vars

\* C21 amended: deleting a group type that an existing group still
\* references is not performed and is answered with a bad request (the
\* store's GroupTypeInUse becomes HTTPBadRequest); the group type record
\* remains.
C21_DeleteInUseIsBadRequest ==
  [][DeleteOfTypeInUse =>
       /\ typeLast'.res = "HTTPBadRequest"
       /\ typeLast'.why = "GroupTypeInUse"
       /\ group_types' = group_types]_vars

\* C21 witness: a delete of a referenced type was refused and the type is
\* still there.
C21_Witness ==
  /\ typeLast.op = "_delete"
  /\ typeLast.why = "GroupTypeInUse"
  /\ typeLast.id \in DOMAIN group_types
  /\ group_types[typeLast.id].groups > 0

PublicTypes == {t \in DOMAIN group_types : group_types[t].is_public}

C23_ExtraSpecsFilter ==
  typeLast.op = "get_all_types" =>
    typeLast.result =
      {t \in group_type_get_all(typeLast.args.is_public) :
         typeLast.args.has_extra_specs =>
           \A k \in DOMAIN typeLast.args.extra_specs :
             /\ k \in DOMAIN group_types[t].extra_specs
             /\ group_types[t].extra_specs[k] = typeLast.args.extra_specs[k]}

\* C24: group_types_diff is symmetric: diff(a,b) and diff(b,a) have the
\* union of both types' extra-spec keys as key set, each entry of one is
\* the other's tuple swapped, the equal flag is the same in both
\* directions, and diff(a,a) reports equal.
C24_DiffSymmetric ==
  (typeLast.op = "group_types_diff" /\ typeLast.res = "ok") =>
    LET a == typeLast.args.id1
        b == typeLast.args.id2
        ab == typeLast.result
        ba == group_types_diff_result(b, a)
    IN /\ DOMAIN ab.res = DOMAIN group_types[a].extra_specs
                            \cup DOMAIN group_types[b].extra_specs
       /\ DOMAIN ba.res = DOMAIN ab.res
       /\ \A k \in DOMAIN ab.res :
            ba.res[k] = <<ab.res[k][2], ab.res[k][1]>>
       /\ ab.equal = ba.equal
       /\ a = b => ab.equal

\* C24 witness: a diff of two different types that hold one key with
\* different values, the second type also holding a key the first lacks.
C24_Witness ==
  /\ typeLast.op = "group_types_diff"
  /\ typeLast.res = "ok"
  /\ typeLast.args.id1 # typeLast.args.id2
  /\ ~typeLast.result.equal
  /\ \E k \in DOMAIN typeLast.result.res : typeLast.result.res[k][1] = None
  /\ \E k \in DOMAIN typeLast.result.res :
       /\ typeLast.result.res[k][1] # None
       /\ typeLast.result.res[k][2] # None
       /\ typeLast.result.res[k][1] # typeLast.result.res[k][2]

LowerWord(s) ==
  [i \in DOMAIN s |->
     CASE s[i] \in {"T", "t"} -> "t" [] s[i] \in {"R", "r"} -> "r"
       [] s[i] \in {"U", "u"} -> "u" [] s[i] \in {"E", "e"} -> "e"
       [] s[i] \in {"F", "f"} -> "f" [] s[i] \in {"A", "a"} -> "a"
       [] s[i] \in {"L", "l"} -> "l" [] s[i] \in {"S", "s"} -> "s"
       [] s[i] \in {"I", "i"} -> "i" [] OTHER -> s[i]]

\* s is: whitespace, '<is>' in any case, whitespace, the word in any case,
\* whitespace
NamesBoolean(s, word) ==
  \E i, j, k \in 1..(Len(s) + 1) :
    /\ i + 4 <= j /\ j <= k
    /\ \A n \in 1..(i - 1) : s[n] \in Whitespace
    /\ LowerWord(SubSeq(s, i, i + 3)) = <<"<", "i", "s", ">">>
    /\ \A n \in (i + 4)..(j - 1) : s[n] \in Whitespace
    /\ LowerWord(SubSeq(s, j, k - 1)) = word
    /\ \A n \in k..Len(s) : s[n] \in Whitespace

\* C25: parse_boolean_extra_spec returns True (False) exactly for the
\* strings that, surrounding whitespace trimmed and case ignored, are
\* '<is>', optional whitespace, 'True' ('False'); every other value raises
\* InvalidExtraSpec.
C25_ParseBooleanExtraSpec ==
  typeLast.op = "parse_boolean_extra_spec" =>
    LET v == typeLast.args
        isTrue == v.type = "str" /\ NamesBoolean(v.chars, <<"t", "r", "u", "e">>)
        isFalse == v.type = "str"
                     /\ NamesBoolean(v.chars, <<"f", "a", "l", "s", "e">>)
    IN /\ typeLast.res = "True" <=> isTrue
       /\ typeLast.res = "False" <=> isFalse
       /\ typeLast.res = "InvalidExtraSpec" <=> ~isTrue /\ ~isFalse

\* C25 witness: ' <IS>  FaLsE ' with surrounding whitespace was parsed as
\* False.
C25_Witness ==
  /\ typeLast.op = "parse_boolean_extra_spec"
  /\ typeLast.res = "False"
  /\ typeLast.args.chars[1] \in Whitespace
  /\ typeLast.args.chars[Len(typeLast.args.chars)] \in Whitespace
  /\ \E i \in DOMAIN typeLast.args.chars : typeLast.args.chars[i] = "L"

KeyAcceptable(k) == k.kind = "str" /\ k.len >= 1 /\ k.len <= 255

RECURSIVE EntriesAcceptable(_)
EntriesAcceptable(specs) ==
  \A k \in DOMAIN specs :
    /\ KeyAcceptable(k)
    /\ \/ specs[k].kind = "str" /\ specs[k].len >= 1 /\ specs[k].len <= 255
       \/ specs[k].kind = "bool"
       \/ specs[k].kind = "dict" /\ EntriesAcceptable(specs[k].entries)

ExtraSpecsWritten(trace) ==
  HasEvent(trace, "group_type_extra_specs_update_or_create")

\* C26: extra-specs create and update never write when they reject a
\* request; on an existing group type a body with a key that is not a
\* string of 1 to 255 characters, or a value that is neither such a string,
\* a boolean nor a nested map of valid entries, is a bad request with
\* group_type_extra_specs_update_or_create not called, and so is an update
\* body that lacks the URI key or has more than one key.  (For a group type
\* that does not exist the answer is not-found, also without a write.)
C26_RejectedExtraSpecsNotWritten ==
  [][typeLast'.op \in {"extra_specs.create", "extra_specs.update"} =>
       LET l == typeLast'
           bad == \/ ~EntriesAcceptable(l.args.body)
                  \/ /\ l.op = "extra_specs.update"
                     /\ \/ l.args.key \notin DOMAIN l.args.body
                        \/ Cardinality(DOMAIN l.args.body) > 1
       IN /\ l.res # "ok" =>
               ~ExtraSpecsWritten(l.trace) /\ group_types' = group_types
          /\ bad => l.res # "ok"
          /\ (bad /\ l.id \in DOMAIN group_types) => l.res = "HTTPBadRequest"
    ]_vars

\* C26 witness: a create whose body nests an invalid entry under a valid
\* key was rejected as a bad request.
C26_Witness ==
  /\ typeLast.op = "extra_specs.create"
  /\ typeLast.res = "HTTPBadRequest"
  /\ typeLast.id \in DOMAIN group_types
  /\ \E k \in DOMAIN typeLast.args.body :
       /\ KeyAcceptable(k)
       /\ typeLast.args.body[k].kind = "dict"
       /\ ~EntriesAcceptable(typeLast.args.body[k].entries)

\* The step of the validation pipeline an error belongs to.
StepOf(why) ==
  CASE why = "snapshot_status" -> 1
    [] why = "share_type_not_found" -> 2
    [] why \in {"dhss_conflict", "network_with_dhss_false",
                "network_required"} -> 3
    [] why = "share_network_not_found" -> 4
    [] why \in {"group_type_not_found", "not_subset"} -> 5
    [] OTHER -> 0

Known(stids) == {i \in DOMAIN stids : stids[i] \in DOMAIN ShareTypeDB}
\* positions of the types that carry driver_handles_share_servers
Carriers(stids) ==
  {i \in Known(stids) : DOMAIN ShareTypeDB[stids[i]] # {}}
HandleSs(st) == ShareTypeDB[st][DRIVER_HANDLES_SHARE_SERVERS]

\* The steps a create request violates, from its arguments and the store.
ViolatedSteps(l) ==
  LET stids == TypesInForce(l)
      net == NetworkInForce(l)
      c == Carriers(stids)
      step3 ==
        \/ \E i, j \in c : HandleSs(stids[i]) # HandleSs(stids[j])
        \/ (net # None /\ \E i \in c : HandleSs(stids[i]) = "False")
        \/ (net = None /\ l.args.snap = NoId
              /\ \E i \in c : HandleSs(stids[i]) = "True")
  IN
  IF l.args.snap # NoId /\ l.pre.snap_status # STATUS_AVAILABLE THEN {1}
  ELSE
    (IF Known(stids) # DOMAIN stids THEN {2} ELSE {})
    \cup (IF step3 THEN {3} ELSE {})
    \cup (IF net # None /\ net \notin ShareNetworkDB THEN {4} ELSE {})
    \cup (IF \/ l.args.gt \notin DOMAIN GroupTypeDB
              \/ ~(Range(stids) \subseteq GroupTypeDB[l.args.gt])
            THEN {5} ELSE {})

ValidationFailed(l) ==
  l.op = "create" /\ l.res \in {"InvalidGroupSnapshot", "InvalidInput"}

\* C27 as stated: a failed validation reports the earliest violated step in
\* the order snapshot status, unknown share type among all requested types,
\* driver_handles_share_servers agreement and network rules, share network
\* existence, group type existence and subset.
C27_ErrorsInPipelineOrder ==
  ValidationFailed(last) =>
    \A s \in ViolatedSteps(last) : StepOf(last.why) <= s

\* What the walk over the share types reports: the first position that is
\* unknown, or disagrees with a type before it, or handles no share servers
\* while a network is given.
FirstBadType(stids, net) ==
  LET Unknown(i) == stids[i] \notin DOMAIN ShareTypeDB
      Conflict(i) ==
        /\ i \in Carriers(stids)
        /\ \E j \in Carriers(stids) :
             j < i /\ HandleSs(stids[j]) # HandleSs(stids[i])
      FalseNet(i) ==
        i \in Carriers(stids) /\ HandleSs(stids[i]) = "False" /\ net # None
      bad == {i \in DOMAIN stids : Unknown(i) \/ Conflict(i) \/ FalseNet(i)}
      first == CHOOSE i \in bad : \A j \in bad : i <= j
  IN IF bad = {} THEN ""
     ELSE IF Unknown(first) THEN "share_type_not_found"
     ELSE IF Conflict(first) THEN "dhss_conflict"
     ELSE "network_with_dhss_false"

\* C27 amended: a failed validation reports the earliest violated check in
\* the order snapshot status; the share types one at a time in list order
\* (unknown type, then agreement of driver_handles_share_servers with the
\* types before it, then no network for a False type); share network
\* existence; network required for a True type; group type existence;
\* subset.  An unknown share type is reported before a conflict only when it
\* stands before the conflicting type.
C27_ErrorsInCodeOrder ==
  ValidationFailed(last) =>
    LET l == last
        stids == TypesInForce(l)
        net == NetworkInForce(l)
        c == Carriers(stids)
    IN
    IF l.args.snap # NoId /\ l.pre.snap_status # STATUS_AVAILABLE
      THEN l.why = "snapshot_status"
    ELSE IF FirstBadType(stids, net) # "" THEN l.why = FirstBadType(stids, net)
    ELSE IF net # None /\ net \notin ShareNetworkDB
      THEN l.why = "share_network_not_found"
    ELSE IF /\ net = None /\ l.args.snap = NoId
            /\ \E i \in c : HandleSs(stids[i]) = "True"
      THEN l.why = "network_required"
    ELSE IF l.args.gt \notin DOMAIN GroupTypeDB
      THEN l.why = "group_type_not_found"
    ELSE l.why = "not_subset"

\* C27 witness: a conflict of driver_handles_share_servers was reported for
\* a list that holds an unknown share type behind the conflicting one.
C27_Witness ==
  /\ ValidationFailed(last)
  /\ last.why = "dhss_conflict"
  /\ \E i \in DOMAIN last.args.stids : last.args.stids[i] = "stX"
  /\ last.args.gt \notin DOMAIN GroupTypeDB

\* C28: whenever API.create fails in its validation pipeline
\* (InvalidGroupSnapshot or InvalidInput), which it does for every request
\* that violates a check, the record store is unchanged: no group and no
\* share has been created and no message went to the scheduler or to a
\* backend host.
C28_FailedValidationChangesNothing ==
  [][(last'.op = "create"
        /\ (ValidationFailed(last') \/ ViolatedSteps(last') # {})) =>
       /\ groups' = groups /\ shares' = shares
       /\ snaps' = snaps /\ members' = members
       /\ nextGroup' = nextGroup /\ nextShare' = nextShare
       /\ ~HasEvent(last'.trace, "share_group_create")
       /\ ~HasEvent(last'.trace, "share_api.create")
       /\ ~CreateCommandSent(last'.trace)
    ]_vars

\* C28 witness: a request that passed every check but the last (the subset
\* check) was refused on a store that holds a group and a snapshot.
C28_Witness ==
  /\ ValidationFailed(last)
  /\ last.why = "not_subset"
  /\ HasEvent(last.trace, "group_type_get")
  /\ DOMAIN groups = {1}
  /\ DOMAIN snaps = {1}

\* C29: when API.create fails while cloning the k-th member of the source
\* snapshot (k >= 2), none of the shares created by that call for the
\* members 1..k-1 remains in existence linked to the destroyed group's id.
C29_NoCloneShareSurvives ==
  (last.op = "create" /\ RaisedIn(last.trace, "share_api.create")
     /\ last.args.failAt >= 2) =>
    \A s \in DOMAIN shares : shares[s].share_group_id # last.id

\* C30: of two concurrent API.delete requests on the same hosted group, each
\* having read it as AVAILABLE or ERROR with no shares and no snapshots, at
\* most one sends the delete_share_group command and ends successfully.
DeleteCommandsSent(g) ==
  {r \in Requests : /\ pc[r].op = "delete" /\ pc[r].g = g
                    /\ HostAssigned(pc[r].group)
                    /\ pc[r].group.status \in DeleteStatuses
                    /\ pc[r].at = "done" /\ pc[r].res = "ok"}

C30_AtMostOneDeleteCommand ==
  \A g \in GroupIds : Cardinality(DeleteCommandsSent(g)) <= 1

=============================================================================
